---- MODULE Spec2Model ----
(***************************************************************************)
(* A model of the nuts container: the password store, the block I/O layer  *)
(* of the container, the container header (read, write, migration) and    *)
(* the byte codec they share.  Every subsystem has its own variables and   *)
(* its own specification; a specification leaves the variables of the      *)
(* other subsystems at their initial values.                               *)
(***************************************************************************)
EXTENDS Integers, Sequences, FiniteSets, TLC

VARIABLES
    ps_store,     \* PasswordStore { callback, value }
    ps_trace,     \* one record per PasswordStore::value() call made so far
    ct_header,    \* Container.header: cipher, key, iv
    ct_blocks,    \* the backend's blocks: id -> the bytes stored in the block
    ct_aquired,   \* the ids the backend has handed out and not taken back
    ct_written,   \* id -> the payload of the last successful Container::write
    ct_last,      \* the last container operation and what it returned
    hd_slot,      \* the header slot of the backend
    hd_wrote,     \* what the last successful create wrote into the slot
    hd_last,      \* the last header operation and what it returned
    mg_migrator,  \* Migrator: the migration registered, if any
    mg_slot,      \* the header slot read with the migrator
    mg_last,      \* the last migrator operation and what it returned
    cd_buf,       \* the bytes a Reader reads from
    cd_last,      \* the last read of the Reader and what it returned
    ar_state,     \* the archive: tree of block ids, header, entries
    ar_last,      \* the last archive operation and what it returned
    st_state,     \* the block stream: written blocks, head, cursor
    st_last,      \* the last stream operation and what it returned
    sv_state,     \* the containers of the tool and their service
    sv_last       \* the last run of the tool and how it ended

pwVars == <<ps_store, ps_trace>>
ctVars == <<ct_header, ct_blocks, ct_aquired, ct_written, ct_last>>
hdVars == <<hd_slot, hd_wrote, hd_last>>
mgVars == <<mg_migrator, mg_slot, mg_last>>
cdVars == <<cd_buf, cd_last>>
arVars == <<ar_state, ar_last>>
stVars == <<st_state, st_last>>
svVars == <<sv_state, sv_last>>

vars == <<ps_store, ps_trace,
          ct_header, ct_blocks, ct_aquired, ct_written, ct_last,
          hd_slot, hd_wrote, hd_last,
          mg_migrator, mg_slot, mg_last,
          cd_buf, cd_last,
          ar_state, ar_last,
          st_state, st_last,
          sv_state, sv_last>>

(***************************************************************************)
(* Common values                                                           *)
(***************************************************************************)

\* Option<T>: None and Some(v).  `v` keeps the type of the payload so that
\* values stay comparable.
NoBytes == [some |-> FALSE, v |-> <<>>]
SomeBytes(b) == [some |-> TRUE, v |-> b]
NoString == [some |-> FALSE, v |-> ""]
SomeString(s) == [some |-> TRUE, v |-> s]

Min(a, b) == IF a <= b THEN a ELSE b

(***************************************************************************)
(* Bounds                                                                  *)
(***************************************************************************)

\* number of PasswordStore::value() calls made on one store
MaxValueCalls == 4
\* passwords are the byte strings <<1>>, <<1, 2>>, ... of up to this length
MaxPasswordLen == 2
\* the backend's block size, in bytes
BlockSize == 4
\* the backend hands out the block ids 1..MaxBlocks
MaxBlocks == 2
\* the random key/IV pairs a header may hold
MaxSecrets == 1
\* the revision byte of a header slot is one of 0..MaxRevision
MaxRevision == 2
\* HEADER_MAX_SIZE: the size of the header slot of a backend, in bytes
HeaderMaxSize == 138
\* a Reader reads from buffers with up to this number of bytes behind the
\* leading byte
MaxTail == 17
\* the block size of the archive's container, in bytes
ArBlockSize == 2
\* the archive's container hands out the block ids 1..MaxArIds
MaxArIds == 6
\* EntryMut::write gets buffers of up to this number of bytes
MaxWriteLen == 3
\* the number of ids a leaf node of the tree holds
TreeFanout == 2
\* the container of a block stream hands out the block ids 1..MaxStreamIds
MaxStreamIds == 4
\* the number of entries the tool's archive counts up to
MaxToolFiles == 2
\* EntryMut::write_all gets buffers of up to this number of bytes
MaxWriteAllLen == 5
\* the service id of the archive, 0x61726368
ArchiveSid == 1634886504

(***************************************************************************)
(* Password store (src/src/container/password.rs)                          *)
(***************************************************************************)

Passwords == { [i \in 1..n |-> i] : n \in 0..MaxPasswordLen }
CallbackErrors == {"no tty", "aborted"}

\* What one invocation of the callback, Fn() -> Result<Vec<u8>, String>, may
\* return.
CallbackResults ==
    { [ok |-> TRUE, val |-> p, msg |-> ""] : p \in Passwords } \cup
    { [ok |-> FALSE, val |-> <<>>, msg |-> m] : m \in CallbackErrors }

\* NoPasswordError(Option<String>)
NoPasswordError(optmsg) == [kind |-> "NoPassword", cause |-> optmsg]
NoError == [kind |-> "", cause |-> NoString]

\* PasswordStore::new(callback)
PasswordStoreNew(hasCallback) == [callback |-> hasCallback, value |-> NoBytes]

\* PasswordStore::with_value(value)
PasswordStoreWithValue(value) == [callback |-> FALSE, value |-> SomeBytes(value)]

\* The store after a successful callback: the variant that forgets to cache.
PasswordStoreCache_NoCache(st, value) == st

\* self.value = Some(value.into())
PasswordStoreCache(st, value) == [st EXCEPT !.value = SomeBytes(value)]

\* The error of a failed callback: the variant that drops the message.
CallbackFailed_DropsMessage(cause) == NoPasswordError(NoString)

\* callback().map_err(|cause| NoPasswordError(Some(cause)))
CallbackFailed(cause) == NoPasswordError(SomeString(cause))

\* PasswordStore::value().  `cb` is what the callback returns if it is
\* invoked by this call; `invoked` tells whether it was.
PasswordStoreValue(st, cb) ==
    IF st.value.some
    THEN [store |-> st, ok |-> TRUE, val |-> st.value.v, err |-> NoError,
          invoked |-> FALSE]
    ELSE IF ~st.callback
    THEN [store |-> st, ok |-> FALSE, val |-> <<>>,
          err |-> NoPasswordError(NoString), invoked |-> FALSE]
    ELSE IF ~cb.ok
    THEN [store |-> st, ok |-> FALSE, val |-> <<>>,
          err |-> CallbackFailed(cb.msg), invoked |-> TRUE]
    ELSE [store |-> PasswordStoreCache(st, cb.val), ok |-> TRUE,
          val |-> PasswordStoreCache(st, cb.val).value.v, err |-> NoError,
          invoked |-> TRUE]

\* the password store while another subsystem runs
PsIdle ==
    /\ ps_store = PasswordStoreNew(FALSE)
    /\ ps_trace = <<>>

\* One call of value(): the trace keeps the store the call found, what the
\* callback answered and what the call returned.
PsValue ==
    /\ UNCHANGED <<ctVars, hdVars, mgVars, cdVars, arVars, stVars, svVars>>
    /\ Len(ps_trace) < MaxValueCalls
    /\ \E cb \in CallbackResults :
         LET r == PasswordStoreValue(ps_store, cb) IN
           /\ ps_store' = r.store
           /\ ps_trace' = Append(ps_trace,
                [before |-> ps_store, cb |-> cb, ok |-> r.ok, val |-> r.val,
                 err |-> r.err, invoked |-> r.invoked])

PsNext == PsValue

(***************************************************************************)
(* Ciphers (spec 4.B): None, Aes128Ctr, Aes128Gcm.  The AES primitive is   *)
(* stood in for by a keyed, invertible byte-wise transformation; the       *)
(* authentication tag of Aes128Gcm by a keyed checksum of the ciphertext   *)
(* that is appended to it.                                                 *)
(***************************************************************************)

Ciphers == {"None", "Aes128Ctr", "Aes128Gcm"}

CipherKeyLen(cipher) == IF cipher = "None" THEN 0 ELSE 16

CipherIvLen(cipher) ==
    IF cipher = "None" THEN 0 ELSE IF cipher = "Aes128Ctr" THEN 16 ELSE 12

CipherTagSize(cipher) == IF cipher = "Aes128Gcm" THEN 16 ELSE 0

\* the i-th byte of the key stream of (key, iv)
KeyStream(key, iv, i) ==
    (key[((i - 1) % Len(key)) + 1] * 7 + iv[((i - 1) % Len(iv)) + 1] * 3 + i) % 256

\* the tag of a ciphertext: a checksum keyed by key and iv
AuthTag(key, iv, ctext) ==
    [j \in 1..16 |->
        ((IF ctext = <<>> THEN 0 ELSE ctext[((j - 1) % Len(ctext)) + 1] * 5)
         + key[j] * 3 + iv[((j - 1) % Len(iv)) + 1] + j) % 256]

CipherOk(bytes) == [ok |-> TRUE, out |-> bytes, err |-> ""]
CipherErr(e) == [ok |-> FALSE, out |-> <<>>, err |-> e]

\* Cipher::encrypt: the whole input is encrypted; Aes128Gcm appends the tag.
CipherEncrypt(cipher, key, iv, ptext) ==
    IF cipher = "None" THEN CipherOk(ptext)
    ELSE IF Len(key) # CipherKeyLen(cipher) THEN CipherErr("InvalidKey")
    ELSE IF Len(iv) # CipherIvLen(cipher) THEN CipherErr("InvalidIv")
    ELSE LET body == [i \in 1..Len(ptext) |->
                        (ptext[i] + KeyStream(key, iv, i)) % 256]
         IN  IF cipher = "Aes128Gcm"
             THEN CipherOk(body \o AuthTag(key, iv, body))
             ELSE CipherOk(body)

\* Cipher::decrypt: Aes128Gcm verifies the tag and fails with BadCiphertext.
CipherDecrypt(cipher, key, iv, ctext) ==
    IF cipher = "None" THEN CipherOk(ctext)
    ELSE IF Len(key) # CipherKeyLen(cipher) THEN CipherErr("InvalidKey")
    ELSE IF Len(iv) # CipherIvLen(cipher) THEN CipherErr("InvalidIv")
    ELSE IF Len(ctext) < CipherTagSize(cipher) THEN CipherErr("BadCiphertext")
    ELSE LET n == Len(ctext) - CipherTagSize(cipher)
             body == SubSeq(ctext, 1, n)
             ptext == [i \in 1..n |->
                         (body[i] + 256 - KeyStream(key, iv, i)) % 256]
         IN  IF /\ cipher = "Aes128Gcm"
                /\ SubSeq(ctext, n + 1, Len(ctext)) # AuthTag(key, iv, body)
             THEN CipherErr("BadCiphertext")
             ELSE CipherOk(ptext)

(***************************************************************************)
(* CipherCtx::new(cipher, block_size): the cipher applied to one block of  *)
(* block_size bytes.  Header::write_secret seals a secret of n bytes with  *)
(* a context of block size n and Header::read_secret opens it with a       *)
(* context of the size of the ciphertext, so a context encrypts a whole    *)
(* block of plaintext and puts the tag, if the cipher has one, behind it.  *)
(***************************************************************************)

CipherCtxEncrypt(cipher, blockSize, key, iv, ptext) ==
    CipherEncrypt(cipher, key, iv, SubSeq(ptext, 1, Min(Len(ptext), blockSize)))

CipherCtxDecrypt(cipher, blockSize, key, iv, ctext) ==
    CipherDecrypt(cipher, key, iv, SubSeq(ctext, 1, Min(Len(ctext), blockSize)))

(***************************************************************************)
(* Byte codec (src/nuts-bytes/src/from_bytes.rs): integers are big-endian   *)
(* and of fixed width, a usize takes eight bytes, a Vec is its length as a  *)
(* usize followed by its elements.  A u32 is kept as its four bytes; a      *)
(* length is kept as a number, and every length of 2^24 or more as Huge.    *)
(***************************************************************************)

Huge == 256 * 256 * 256

\* let v = ...; the value is computed once and named in what follows
Bind(v, F(_)) == F(v)

ReadOk(v, rest) == [ok |-> TRUE, v |-> v, rest |-> rest, err |-> ""]
ReadErr(e) == [ok |-> FALSE, v |-> <<>>, rest |-> <<>>, err |-> e]

\* source.take_bytes(&mut buf): Eof when fewer than n bytes are left
TakeBytes(buf, n) ==
    IF Len(buf) < n THEN ReadErr("Eof")
    ELSE ReadOk(SubSeq(buf, 1, n), SubSeq(buf, n + 1, Len(buf)))

\* the number a big-endian byte string of three or more bytes stands for
BeValue(b) ==
    LET n == Len(b) IN
      IF \E i \in 1..(n - 3) : b[i] # 0 THEN Huge
      ELSE (b[n - 2] * 256 + b[n - 1]) * 256 + b[n]

\* u8::from_bytes
FromBytesU8(buf) ==
    LET t == TakeBytes(buf, 1) IN
      IF t.ok THEN ReadOk(t.v[1], t.rest) ELSE t

\* u32::from_bytes: the four bytes of the value
FromBytesU32(buf) == TakeBytes(buf, 4)

\* usize::from_bytes
FromBytesUsize(buf) ==
    LET t == TakeBytes(buf, 8) IN
      IF t.ok THEN ReadOk(BeValue(t.v), t.rest) ELSE t

\* Vec<u8>::from_bytes
FromBytesVec(buf) ==
    Bind(FromBytesUsize(buf), LAMBDA len :
      IF ~len.ok THEN len
      ELSE IF len.v > Len(len.rest) THEN ReadErr("Eof")
      ELSE TakeBytes(len.rest, len.v))

\* u32::to_bytes of a number below 2^24
ToBytesU32(n) == <<0, (n \div 65536) % 256, (n \div 256) % 256, n % 256>>

\* usize::to_bytes
ToBytesUsize(n) == <<0, 0, 0, 0>> \o ToBytesU32(n)

\* Vec<u8>::to_bytes
ToBytesVec(b) == ToBytesUsize(Len(b)) \o b

\* Cursor<&mut [u8]>: `out` is what was written so far, from the start of
\* the slice.  A write that does not fit fills the slice and fails.
CursorNew(buf) == [buf |-> buf, out |-> <<>>, ok |-> TRUE]

CursorWrite(cur, bytes) ==
    IF ~cur.ok THEN cur
    ELSE LET n == Min(Len(bytes), Len(cur.buf) - Len(cur.out)) IN
           [buf |-> cur.buf, out |-> cur.out \o SubSeq(bytes, 1, n),
            ok |-> n = Len(bytes)]

\* the slice under the cursor
CursorBuf(cur) == cur.out \o SubSeq(cur.buf, Len(cur.out) + 1, Len(cur.buf))

(***************************************************************************)
(* Key derivation (spec 4.B): None gives the empty key, Pbkdf2 a key of    *)
(* the length of an AES-128 key.  PBKDF2 is stood in for by a keyed mix of  *)
(* password, salt and iteration count that differs from byte to byte.      *)
(***************************************************************************)

KdfNone == [algo |-> "None", digest |-> "", iterations |-> 0, salt |-> <<>>]
KdfPbkdf2(digest, iterations, salt) ==
    [algo |-> "Pbkdf2", digest |-> digest, iterations |-> iterations,
     salt |-> salt]

Digests == <<"Sha1", "Sha256", "Sha512">>

Kdfs == { KdfNone, KdfPbkdf2("Sha256", 2, <<9, 8>>) }

\* Option<Kdf>
NoKdf == [some |-> FALSE, v |-> KdfNone]
SomeKdf(kdf) == [some |-> TRUE, v |-> kdf]

RECURSIVE Weight(_)
Weight(bytes) ==
    IF bytes = <<>> THEN 1
    ELSE (Head(bytes) + 1) * (Len(bytes) + 2) + 3 * Weight(Tail(bytes))

\* Kdf::create_key(password)
KdfCreateKey(kdf, password) ==
    IF kdf.algo = "None" THEN <<>>
    ELSE [i \in 1..CipherKeyLen("Aes128Ctr") |->
            (Weight(password) * (i * i + 1) + Weight(kdf.salt) * i
             + kdf.iterations * 5 + Len(kdf.digest)) % 256]

DigestIndex(digest) == CHOOSE i \in 1..Len(Digests) : Digests[i] = digest

\* Kdf::to_bytes
KdfToBytes(kdf) ==
    IF kdf.algo = "None" THEN ToBytesU32(0)
    ELSE ToBytesU32(1) \o ToBytesU32(DigestIndex(kdf.digest) - 1)
         \o ToBytesU32(kdf.iterations) \o ToBytesVec(kdf.salt)

\* Kdf::from_bytes
KdfFromBytes(buf) ==
    Bind(FromBytesU32(buf), LAMBDA tag :
      IF ~tag.ok THEN tag
      ELSE IF BeValue(tag.v) = 0 THEN ReadOk(KdfNone, tag.rest)
      ELSE IF BeValue(tag.v) # 1 THEN ReadErr("UnknownKdf")
      ELSE Bind(FromBytesU32(tag.rest), LAMBDA digest :
        IF ~digest.ok THEN digest
        ELSE IF BeValue(digest.v) >= Len(Digests) THEN ReadErr("UnknownKdf")
        ELSE Bind(FromBytesU32(digest.rest), LAMBDA iterations :
          IF ~iterations.ok THEN iterations
          ELSE Bind(FromBytesVec(iterations.rest), LAMBDA salt :
            IF ~salt.ok THEN salt
            ELSE ReadOk(KdfPbkdf2(Digests[BeValue(digest.v) + 1],
                                  BeValue(iterations.v), salt.v),
                        salt.rest)))))

CipherNames == <<"None", "Aes128Ctr", "Aes128Gcm">>

CipherIndex(cipher) == CHOOSE i \in 1..Len(CipherNames) : CipherNames[i] = cipher

\* Cipher::to_bytes
CipherToBytes(cipher) == ToBytesU32(CipherIndex(cipher) - 1)

\* Cipher::from_bytes
CipherFromBytes(buf) ==
    Bind(FromBytesU32(buf), LAMBDA tag :
      IF ~tag.ok THEN tag
      ELSE IF BeValue(tag.v) >= Len(CipherNames) THEN ReadErr("UnknownCipher")
      ELSE ReadOk(CipherNames[BeValue(tag.v) + 1], tag.rest))

(***************************************************************************)
(* Backend (spec 4.C), as the memory backend: a map of blocks of           *)
(* block_size bytes each.                                                  *)
(***************************************************************************)

\* Id::null()
NullId == 0
BlockIds == 1..MaxBlocks

IsNull(id) == id = NullId

Zeros(n) == [i \in 1..n |-> 0]

\* Backend::aquire: a fresh block is all zero.  No id is left: an error.
BackendAquire(blocks, aquired) ==
    IF BlockIds \ aquired = {}
    THEN [ok |-> FALSE, id |-> NullId, blocks |-> blocks, aquired |-> aquired]
    ELSE LET id == CHOOSE i \in BlockIds \ aquired :
                       \A j \in BlockIds \ aquired : i <= j
         IN  [ok |-> TRUE, id |-> id,
              blocks |-> [blocks EXCEPT ![id] = Zeros(BlockSize)],
              aquired |-> aquired \cup {id}]

\* Backend::release
BackendRelease(blocks, aquired, id) ==
    IF id \notin aquired
    THEN [ok |-> FALSE, blocks |-> blocks, aquired |-> aquired]
    ELSE [ok |-> TRUE, blocks |-> [blocks EXCEPT ![id] = <<>>],
          aquired |-> aquired \ {id}]

\* Backend::read(id, buf): fills buf with the first |buf| bytes of the block.
BackendRead(blocks, aquired, id, buflen) ==
    IF id \notin aquired
    THEN [ok |-> FALSE, n |-> 0, data |-> <<>>]
    ELSE [ok |-> TRUE, n |-> Min(buflen, BlockSize),
          data |-> SubSeq(blocks[id], 1, Min(buflen, BlockSize))]

\* Backend::write(id, buf): stores the first block_size bytes of buf and pads
\* the block with zeros.
BackendWrite(blocks, aquired, id, buf) ==
    IF id \notin aquired
    THEN [ok |-> FALSE, n |-> 0, blocks |-> blocks]
    ELSE LET n == Min(Len(buf), BlockSize)
         IN  [ok |-> TRUE, n |-> n,
              blocks |-> [blocks EXCEPT ![id] =
                            SubSeq(buf, 1, n) \o Zeros(BlockSize - n)]]

(***************************************************************************)
(* Container (src/src/container.rs)                                        *)
(***************************************************************************)

\* the header's key and IV: random bytes of the cipher's lengths
SecretBytes(len, k) == [i \in 1..len |-> (i * k + 11 * k) % 256]

ContainerHeaders ==
    { [cipher |-> c, key |-> SecretBytes(CipherKeyLen(c), k),
       iv |-> SecretBytes(CipherIvLen(c), k + 1)] :
      c \in Ciphers, k \in 1..MaxSecrets }

ContainerResult(ok, n, err, buf, blocks, calls) ==
    [ok |-> ok, n |-> n, err |-> err, buf |-> buf, blocks |-> blocks,
     calls |-> calls]

\* The null check of read and write: the variant without it.
RejectNullId_Missing(id) == FALSE

\* if id.is_null() { return Err(Error::NullId); }
RejectNullId(id) == IsNull(id)

\* The plaintext handed to the cipher: the variant that does not pad.
PadPlaintext_NoPadding(buf, blockSize) == buf

\* if ptext.len() < block_size { ptext.to_mut().resize(block_size, 0); }
PadPlaintext(buf, blockSize) ==
    IF Len(buf) < blockSize THEN buf \o Zeros(blockSize - Len(buf)) ELSE buf

BlockIv_PerBlock(header, id) ==
    [i \in 1..Len(header.iv) |-> (header.iv[i] + id) % 256]

\* let iv = &self.header.iv: the IV handed to the cipher for block id
BlockIv(header, id) == header.iv

\* Container::write(id, buf).  `calls` counts the backend calls made.
ContainerWrite(header, blocks, aquired, id, buf) ==
    IF RejectNullId(id)
    THEN ContainerResult(FALSE, 0, "NullId", buf, blocks, 0)
    ELSE LET ptext == PadPlaintext(buf, BlockSize)
             result == CipherCtxEncrypt(header.cipher, BlockSize,
                                        header.key, BlockIv(header, id), ptext)
         IN  IF ~result.ok
             THEN ContainerResult(FALSE, 0, result.err, buf, blocks, 0)
             ELSE LET w == BackendWrite(blocks, aquired, id, result.out)
                  IN  IF w.ok
                      THEN ContainerResult(TRUE, w.n, "", buf, w.blocks, 1)
                      ELSE ContainerResult(FALSE, 0, "Backend", buf, blocks, 1)

\* Container::read(id, buf)
ContainerRead(header, blocks, aquired, id, buf) ==
    IF RejectNullId(id)
    THEN ContainerResult(FALSE, 0, "NullId", buf, blocks, 0)
    ELSE LET r == BackendRead(blocks, aquired, id, BlockSize)
         IN  IF ~r.ok
             THEN ContainerResult(FALSE, 0, "Backend", buf, blocks, 1)
             ELSE LET result == CipherCtxDecrypt(header.cipher, BlockSize,
                                   header.key, BlockIv(header, id),
                                   SubSeq(r.data, 1, r.n))
                  IN  IF ~result.ok
                      THEN ContainerResult(FALSE, 0, result.err, buf, blocks, 1)
                      ELSE LET n == Min(Len(result.out), Len(buf))
                           IN  ContainerResult(TRUE, n, "",
                                   SubSeq(result.out, 1, n) \o
                                       SubSeq(buf, n + 1, Len(buf)),
                                   blocks, 1)

\* the payloads written: empty, one and two bytes, a whole block and one
\* byte more
Payloads ==
    { [i \in 1..n |-> 1 + (i % 5)] : n \in {0, 1, 2, BlockSize, BlockSize + 1} }

\* the buffers read into: shorter than, as long as and longer than a block
ReadBuffers == { [i \in 1..n |-> 255] : n \in {1, BlockSize, BlockSize + 1} }

NoLast == [op |-> "none", id |-> NullId, arg |-> <<>>, ok |-> TRUE, n |-> 0,
           err |-> "", buf |-> <<>>, calls |-> 0]

\* the container while another subsystem runs
CtIdle ==
    /\ ct_header = [cipher |-> "None", key |-> <<>>, iv |-> <<>>]
    /\ ct_blocks = [id \in BlockIds |-> <<>>]
    /\ ct_aquired = {}
    /\ ct_written = [id \in BlockIds |-> NoBytes]
    /\ ct_last = NoLast

\* what the container operations leave alone
CtFrame == UNCHANGED <<pwVars, hdVars, mgVars, cdVars, arVars, stVars, svVars>>

\* Container::aquire
CtAquire ==
    /\ CtFrame
    /\ LET a == BackendAquire(ct_blocks, ct_aquired) IN
      /\ ct_blocks' = a.blocks
      /\ ct_aquired' = a.aquired
      /\ ct_written' = IF a.ok THEN [ct_written EXCEPT ![a.id] = NoBytes]
                       ELSE ct_written
      /\ ct_last' = [NoLast EXCEPT !.op = "aquire", !.id = a.id, !.ok = a.ok,
                       !.err = IF a.ok THEN "" ELSE "Backend", !.calls = 1]
      /\ UNCHANGED ct_header

\* Container::release
CtRelease ==
    /\ CtFrame
    /\ \E id \in BlockIds :
      LET r == BackendRelease(ct_blocks, ct_aquired, id) IN
        /\ ct_blocks' = r.blocks
        /\ ct_aquired' = r.aquired
        /\ ct_written' = IF r.ok THEN [ct_written EXCEPT ![id] = NoBytes]
                         ELSE ct_written
        /\ ct_last' = [NoLast EXCEPT !.op = "release", !.id = id, !.ok = r.ok,
                         !.err = IF r.ok THEN "" ELSE "Backend", !.calls = 1]
        /\ UNCHANGED ct_header

\* Container::write(id, buf)
CtWriteOf(id, buf) ==
      LET w == ContainerWrite(ct_header, ct_blocks, ct_aquired, id, buf) IN
        /\ ct_blocks' = w.blocks
        /\ ct_written' = IF w.ok /\ id \in BlockIds
                         THEN [ct_written EXCEPT ![id] = SomeBytes(buf)]
                         ELSE ct_written
        /\ ct_last' = [op |-> "write", id |-> id, arg |-> buf, ok |-> w.ok,
                       n |-> w.n, err |-> w.err, buf |-> w.buf,
                       calls |-> w.calls]
        /\ UNCHANGED <<ct_header, ct_aquired>>

\* Container::write with every id and payload
CtWrite ==
    /\ CtFrame
    /\ \E id \in BlockIds \cup {NullId}, buf \in Payloads : CtWriteOf(id, buf)

\* Container::read(id, buf)
CtReadOf(id, buf) ==
      LET r == ContainerRead(ct_header, ct_blocks, ct_aquired, id, buf) IN
        /\ ct_blocks' = r.blocks
        /\ ct_last' = [op |-> "read", id |-> id, arg |-> buf, ok |-> r.ok,
                       n |-> r.n, err |-> r.err, buf |-> r.buf,
                       calls |-> r.calls]
        /\ UNCHANGED <<ct_header, ct_aquired, ct_written>>

\* Container::read with every id and buffer
CtRead ==
    /\ CtFrame
    /\ \E id \in BlockIds \cup {NullId}, buf \in ReadBuffers : CtReadOf(id, buf)

\* Container::info: the info of the backend, the cipher and the kdf of the
\* header
CtInfo ==
    /\ CtFrame
    /\ ct_last' = [NoLast EXCEPT !.op = "info", !.calls = 1]
    /\ UNCHANGED <<ct_header, ct_blocks, ct_aquired, ct_written>>

CtNext == CtAquire \/ CtRelease \/ CtWrite \/ CtRead \/ CtInfo

(***************************************************************************)
(* Header (src/nuts/src/container/header.rs)                               *)
(***************************************************************************)

MAGIC == <<110, 117, 116, 115, 45, 105, 111>>   \* b"nuts-io"

\* the backend's settings, as the bytes they are stored as
BackendSettings == { <<>>, <<7>> }

\* rand_u32(): the secret magic of the k-th draw
SecretMagic(k) == <<145, 192, 178, (206 + k) % 256>>

NoHeader == [cipher |-> "None", kdf |-> NoKdf, key |-> <<>>, iv |-> <<>>]

\* Header::create(options): key and iv are random bytes, k and j choose them
HeaderCreate(cipher, kdf, k, j) ==
    [cipher |-> cipher,
     kdf |-> SomeKdf(kdf),
     key |-> SecretBytes(CipherKeyLen(cipher), k),
     iv |-> SecretBytes(CipherIvLen(cipher), j)]

\* Secret::to_bytes
SecretToBytes(key, iv, settings) ==
    ToBytesVec(key) \o ToBytesVec(iv) \o ToBytesVec(settings)

\* Secret::from_bytes
SecretFromBytes(buf) ==
    Bind(FromBytesVec(buf), LAMBDA key :
      IF ~key.ok THEN key
      ELSE Bind(FromBytesVec(key.rest), LAMBDA iv :
        IF ~iv.ok THEN iv
        ELSE Bind(FromBytesVec(iv.rest), LAMBDA settings :
          IF ~settings.ok THEN settings
          ELSE ReadOk([key |-> key.v, iv |-> iv.v, settings |-> settings.v],
                      settings.rest))))

\* the error of a write that runs over the end of the buffer
HeaderTooLarge == "HeaderTooLarge"

HeaderWriteResult(ok, err, cur, secretLen) ==
    [ok |-> ok, err |-> err, buf |-> CursorBuf(cur), pos |-> Len(cur.out),
     secretLen |-> secretLen, asked |-> FALSE, invoked |-> FALSE]

\* The result of a header operation that has called store.value():
\* `password` is what the call returned.
Asked(res, password) ==
    [res EXCEPT !.asked = TRUE, !.invoked = password.invoked]

\* The branch of Header::read and Header::write that calls store.value():
\* the variant that takes it for every cipher.
NeedsPassword_Always(cipher) == TRUE

\* if cipher == Cipher::None { .. } else { .. store.value()? .. }
NeedsPassword(cipher) == cipher # "None"

\* Header::write_secret.  `magic` is the u32 that rand_u32() returns.
HeaderWriteSecret(h, settings, iv, password, cur, magic) ==
    Bind(magic \o magic \o SecretToBytes(h.key, h.iv, settings), LAMBDA pbuf :
      Bind(CipherCtxEncrypt(h.cipher, Len(pbuf),
                            KdfCreateKey(h.kdf.v, password), iv, pbuf),
           LAMBDA cbuf :
        IF ~cbuf.ok THEN HeaderWriteResult(FALSE, cbuf.err, cur, 0)
        ELSE Bind(CursorWrite(cur, ToBytesVec(cbuf.out)), LAMBDA c :
               IF c.ok THEN HeaderWriteResult(TRUE, "", c, Len(cbuf.out))
               ELSE HeaderWriteResult(FALSE, HeaderTooLarge, c, 0))))

\* Header::write(settings, buf, store).  `cb` is what the callback of the
\* store returns if it is invoked, `iv` the random IV of this write.
HeaderWrite(h, settings, buf, st, cb, iv, magic) ==
    Bind(CursorWrite(CursorWrite(CursorWrite(CursorNew(buf), MAGIC), <<1>>),
                     CipherToBytes(h.cipher)), LAMBDA c3 :
      IF ~c3.ok THEN HeaderWriteResult(FALSE, HeaderTooLarge, c3, 0)
      ELSE IF ~NeedsPassword(h.cipher)
      THEN Bind(CursorWrite(c3, ToBytesVec(settings)), LAMBDA c4 :
             IF c4.ok THEN HeaderWriteResult(TRUE, "", c4, 0)
             ELSE HeaderWriteResult(FALSE, HeaderTooLarge, c4, 0))
      ELSE Bind(PasswordStoreValue(st, cb), LAMBDA password :
        Asked(IF ~password.ok
              THEN HeaderWriteResult(FALSE, "NoPassword", c3, 0)
              ELSE Bind(CursorWrite(CursorWrite(c3, ToBytesVec(iv)),
                                    KdfToBytes(h.kdf.v)), LAMBDA c6 :
                     IF ~c6.ok
                     THEN HeaderWriteResult(FALSE, HeaderTooLarge, c6, 0)
                     ELSE HeaderWriteSecret(h, settings, iv, password.val,
                                            c6, magic)),
              password)))

\* The check of the two secret magics: the variant that accepts every pair.
SecretMagicsDiffer_Never(magic1, magic2) == FALSE

\* if sec_magic1 != sec_magic2 { return Err(ContainerError::WrongPassword); }
SecretMagicsDiffer(magic1, magic2) == magic1 # magic2

NoSecret ==
    [ok |-> FALSE, err |-> "", key |-> <<>>, iv |-> <<>>, settings |-> <<>>,
     encrypted |-> FALSE, decrypted |-> FALSE, cipherErr |-> "",
     magics |-> FALSE, magic1 |-> <<>>, magic2 |-> <<>>]

\* the secret that the cipher has opened
OpenedSecret == [NoSecret EXCEPT !.encrypted = TRUE, !.decrypted = TRUE]

\* the opened secret whose magics were read
CheckedSecret(magic1, magic2) ==
    [OpenedSecret EXCEPT !.magics = TRUE, !.magic1 = magic1,
                         !.magic2 = magic2]

\* Header::read_secret.  Besides the secret the result tells how far the
\* function came: whether the cipher opened the secret, the error of the
\* cipher if it did not, and the two magics if they were read.
HeaderReadSecret(cipher, iv, password, kdf, buf) ==
    Bind(FromBytesVec(buf), LAMBDA cbuf :
      IF ~cbuf.ok THEN [NoSecret EXCEPT !.err = cbuf.err]
      ELSE Bind(CipherCtxDecrypt(cipher, Len(cbuf.v),
                                 KdfCreateKey(kdf, password), iv, cbuf.v),
                LAMBDA pbuf :
        IF ~pbuf.ok
        THEN [NoSecret EXCEPT !.err = pbuf.err, !.encrypted = TRUE,
                              !.cipherErr = pbuf.err]
        ELSE Bind(FromBytesU32(pbuf.out), LAMBDA magic1 :
          IF ~magic1.ok THEN [OpenedSecret EXCEPT !.err = magic1.err]
          ELSE Bind(FromBytesU32(magic1.rest), LAMBDA magic2 :
            IF ~magic2.ok THEN [OpenedSecret EXCEPT !.err = magic2.err]
            ELSE IF SecretMagicsDiffer(magic1.v, magic2.v)
            THEN [CheckedSecret(magic1.v, magic2.v) EXCEPT
                    !.err = "WrongPassword"]
            ELSE Bind(SecretFromBytes(magic2.rest), LAMBDA secret :
              IF ~secret.ok
              THEN [CheckedSecret(magic1.v, magic2.v) EXCEPT
                      !.err = secret.err]
              ELSE [CheckedSecret(magic1.v, magic2.v) EXCEPT
                      !.ok = TRUE, !.key = secret.v.key, !.iv = secret.v.iv,
                      !.settings = secret.v.settings])))))

\* if revision != 1 { return Err(invalid revision) }
RejectRevision(revision) == revision # 1

NoRead ==
    [ok |-> FALSE, err |-> "", header |-> NoHeader, settings |-> <<>>,
     revision |-> -1, secret |-> NoSecret, cipher |-> "",
     asked |-> FALSE, invoked |-> FALSE]

\* a read that came as far as the revision
ReadOf(revision) == [NoRead EXCEPT !.revision = revision]

\* a read that came as far as the cipher
ReadAs(revision, cipher) == [ReadOf(revision) EXCEPT !.cipher = cipher]

\* Header::read(buf, store)
HeaderRead(buf, st, cb) ==
    Bind(TakeBytes(buf, Len(MAGIC)), LAMBDA magic :
      IF ~magic.ok THEN [NoRead EXCEPT !.err = magic.err]
      ELSE IF magic.v # MAGIC THEN [NoRead EXCEPT !.err = "magic mismatch"]
      ELSE Bind(FromBytesU8(magic.rest), LAMBDA revision :
        IF ~revision.ok THEN [NoRead EXCEPT !.err = revision.err]
        ELSE IF RejectRevision(revision.v)
        THEN [ReadOf(revision.v) EXCEPT !.err = "invalid revision"]
        ELSE Bind(CipherFromBytes(revision.rest), LAMBDA cipher :
          IF ~cipher.ok THEN [ReadOf(revision.v) EXCEPT !.err = cipher.err]
          ELSE IF ~NeedsPassword(cipher.v)
          THEN Bind(FromBytesVec(cipher.rest), LAMBDA settings :
                 IF ~settings.ok
                 THEN [ReadAs(revision.v, cipher.v) EXCEPT
                         !.err = settings.err]
                 ELSE [ReadAs(revision.v, cipher.v) EXCEPT !.ok = TRUE,
                         !.header = NoHeader, !.settings = settings.v])
          ELSE Bind(FromBytesVec(cipher.rest), LAMBDA iv :
            IF ~iv.ok THEN [ReadAs(revision.v, cipher.v) EXCEPT !.err = iv.err]
            ELSE Bind(PasswordStoreValue(st, cb), LAMBDA password :
              Asked(
               IF ~password.ok
               THEN [ReadAs(revision.v, cipher.v) EXCEPT !.err = "NoPassword"]
               ELSE Bind(KdfFromBytes(iv.rest), LAMBDA kdf :
                 IF ~kdf.ok
                 THEN [ReadAs(revision.v, cipher.v) EXCEPT !.err = kdf.err]
                 ELSE Bind(HeaderReadSecret(cipher.v, iv.v, password.val,
                                            kdf.v, kdf.rest), LAMBDA secret :
                   IF ~secret.ok
                   THEN [ReadAs(revision.v, cipher.v) EXCEPT
                           !.err = secret.err, !.secret = secret]
                   ELSE [ReadAs(revision.v, cipher.v) EXCEPT !.ok = TRUE,
                           !.header = [cipher |-> cipher.v,
                                       kdf |-> SomeKdf(kdf.v),
                                       key |-> secret.key,
                                       iv |-> secret.iv],
                           !.settings = secret.settings,
                           !.secret = secret])),
               password))))))

(***************************************************************************)
(* The header slot of the backend and the container operations that write   *)
(* and read it (src/src/container.rs: create, open, write_header,          *)
(* read_header).                                                           *)
(***************************************************************************)

\* The number of bytes that Header::write emits for the header where the
\* buffer is large enough; 0 if the write fails for another reason.
EncodedSize(h, settings, st, cb, iv, magic) ==
    Bind(HeaderWrite(h, settings, Zeros(2 * HeaderMaxSize), st, cb, iv, magic),
         LAMBDA w : IF w.ok THEN w.pos ELSE 0)

\* The buffer that write_header hands to Header::write: the variant that
\* takes the bytes the slot holds.
HeaderBuffer_Reused(slot) == slot

\* let mut buf = [0; HEADER_MAX_SIZE];
HeaderBuffer(slot) == Zeros(HeaderMaxSize)

\* The slot after write_header: the variant that stores the buffer also
\* when Header::write has failed.
PutHeaderBytes_Always(slot, w) == [slot |-> w.buf, puts |-> 1]

\* header.write(settings, &mut buf, store)?; backend.put_header_bytes(&buf)
\* `puts` is the number of put_header_bytes calls made.
PutHeaderBytes(slot, w) ==
    IF w.ok THEN [slot |-> w.buf, puts |-> 1] ELSE [slot |-> slot, puts |-> 0]

\* let mut buf = [0; HEADER_MAX_SIZE]; header.write(..)?; put_header_bytes
ContainerWriteHeader(slot, h, settings, st, cb, iv, magic) ==
    Bind(HeaderWrite(h, settings, HeaderBuffer(slot), st, cb, iv, magic),
         LAMBDA w :
      [ok |-> w.ok, err |-> w.err,
       slot |-> PutHeaderBytes(slot, w).slot,
       puts |-> PutHeaderBytes(slot, w).puts,
       pos |-> w.pos, secretLen |-> w.secretLen,
       asked |-> w.asked, invoked |-> w.invoked])

\* What get_header_bytes does: the variant that clears the slot it reads.
GetHeaderBytes_Clears(slot) ==
    [buf |-> SubSeq(slot, 1, Min(Len(slot), HeaderMaxSize)),
     slot |-> Zeros(HeaderMaxSize)]

\* let mut buf = [0; HEADER_MAX_SIZE]; backend.get_header_bytes(&mut buf):
\* the bytes read and the slot afterwards
GetHeaderBytes(slot) ==
    [buf |-> SubSeq(slot, 1, Min(Len(slot), HeaderMaxSize)), slot |-> slot]

\* get_header_bytes(&mut buf); Header::read(&buf, store)
ContainerReadHeader(slot, st, cb) ==
    Bind(GetHeaderBytes(slot), LAMBDA g :
      [read |-> HeaderRead(g.buf, st, cb), slot |-> g.slot])

\* the callback of a store that has none
NoCallback == [ok |-> FALSE, val |-> <<>>, msg |-> ""]

\* PasswordStore::new(callback): the stores made by create and open, each
\* with the answer its callback gives: no callback, or a callback that
\* answers with a password
StoreInputs ==
    { <<PasswordStoreNew(FALSE), NoCallback>> } \cup
    { <<PasswordStoreNew(TRUE), [ok |-> TRUE, val |-> p, msg |-> ""]>> :
        p \in Passwords }

\* the password the store gives
PasswordOf(in) ==
    Bind(PasswordStoreValue(in[1], in[2]), LAMBDA password :
      IF password.ok THEN SomeBytes(password.val) ELSE NoBytes)

NoWrote ==
    [some |-> FALSE, intact |-> FALSE, header |-> NoHeader, settings |-> <<>>,
     password |-> NoBytes, pos |-> 0, secretLen |-> 0]

NoHdLast ==
    [op |-> "none", ok |-> TRUE, err |-> "", header |-> NoHeader,
     settings |-> <<>>, revision |-> -1, secret |-> NoSecret,
     password |-> NoBytes, cipher |-> "", callback |-> FALSE,
     asked |-> FALSE, invoked |-> FALSE, pos |-> 0, dirty |-> FALSE,
     size |-> 0, kept |-> TRUE, puts |-> 0]

\* the header while another subsystem runs
HdIdle ==
    /\ hd_slot = <<>>
    /\ hd_wrote = NoWrote
    /\ hd_last = NoHdLast

HdFrame == UNCHANGED <<pwVars, ctVars, mgVars, cdVars, arVars, stVars, svVars>>

\* Container::create(options): Header::create, then write_header.  A failed
\* create leaves the slot as it was.  The options are the cipher, the kdf,
\* the settings of the backend and the callback of `in`; k chooses the
\* random bytes.
ContainerCreate(cipher, kdf, settings, in, k) ==
         \E w \in { ContainerWriteHeader(hd_slot,
                        HeaderCreate(cipher, kdf, k, k + 1), settings,
                        in[1], in[2], SecretBytes(CipherIvLen(cipher), k + 2),
                        SecretMagic(k)) } :
           /\ hd_slot' = w.slot
           /\ hd_wrote' = IF w.ok
                          THEN [some |-> TRUE, intact |-> TRUE,
                                header |-> HeaderCreate(cipher, kdf, k, k + 1),
                                settings |-> settings,
                                password |-> IF cipher = "None" THEN NoBytes
                                             ELSE PasswordOf(in),
                                pos |-> w.pos, secretLen |-> w.secretLen]
                          ELSE hd_wrote
           /\ hd_last' = [NoHdLast EXCEPT !.op = "create", !.ok = w.ok,
                                          !.err = w.err, !.cipher = cipher,
                                          !.callback = in[1].callback,
                                          !.asked = w.asked,
                                          !.invoked = w.invoked,
                                          !.pos = w.pos,
                                          !.dirty =
                                            \E i \in (w.pos + 1)..Len(hd_slot) :
                                              hd_slot[i] # 0,
                                          !.size = EncodedSize(
                                            HeaderCreate(cipher, kdf, k, k + 1),
                                            settings, in[1], in[2],
                                            SecretBytes(CipherIvLen(cipher), k + 2),
                                            SecretMagic(k)),
                                          !.kept = (w.slot = hd_slot),
                                          !.puts = w.puts]

\* Container::create with every option
HdCreate ==
    /\ HdFrame
    /\ \E cipher \in Ciphers, kdf \in Kdfs, settings \in BackendSettings,
          in \in StoreInputs, k \in 1..MaxSecrets :
         ContainerCreate(cipher, kdf, settings, in, k)

\* Container::open(options): read_header.  The options are the callback of
\* `in`.
ContainerOpen(in) ==
         \E g \in { ContainerReadHeader(hd_slot, in[1], in[2]) } :
         \E r \in { g.read } :
           /\ hd_slot' = g.slot
           /\ hd_wrote' = hd_wrote
           /\ hd_last' = [op |-> "open", ok |-> r.ok, err |-> r.err,
                          header |-> r.header, settings |-> r.settings,
                          revision |-> r.revision, secret |-> r.secret,
                          password |-> IF r.secret.encrypted THEN PasswordOf(in)
                                       ELSE NoBytes,
                          cipher |-> r.cipher,
                          callback |-> in[1].callback,
                          asked |-> r.asked, invoked |-> r.invoked,
                          pos |-> 0, dirty |-> FALSE, size |-> 0,
                          kept |-> TRUE, puts |-> 0]

\* Container::open with every callback
HdOpen ==
    /\ HdFrame
    /\ \E in \in StoreInputs : ContainerOpen(in)

\* The slot comes from another revision of the program: its revision byte
\* is r.
HdSetRevision ==
    /\ HdFrame
    /\ hd_wrote.some /\ hd_wrote.intact
    /\ \E r \in 0..MaxRevision :
         /\ hd_slot' = [hd_slot EXCEPT ![Len(MAGIC) + 1] = r]
         /\ hd_wrote' = [hd_wrote EXCEPT !.intact = FALSE]
         /\ hd_last' = [NoHdLast EXCEPT !.op = "set_revision", !.revision = r]

\* The storage damages the slot: the last byte written, or the first byte
\* of the sealed secret, changes.
HdCorrupt ==
    /\ HdFrame
    /\ hd_wrote.some /\ hd_wrote.intact
    /\ \E at \in {hd_wrote.pos} \cup
                 (IF hd_wrote.secretLen = 0 THEN {}
                  ELSE {hd_wrote.pos - hd_wrote.secretLen + 1}) :
         /\ hd_slot' = [hd_slot EXCEPT ![at] = (hd_slot[at] + 1) % 256]
         /\ hd_wrote' = [hd_wrote EXCEPT !.intact = FALSE]
         /\ hd_last' = [NoHdLast EXCEPT !.op = "corrupt"]

HdNext == HdCreate \/ HdOpen \/ HdSetRevision \/ HdCorrupt

(***************************************************************************)
(* The operations of the container on one backend, with few inputs each:   *)
(* create and open with and without a callback, block I/O with one payload  *)
(* and one buffer.                                                          *)
(***************************************************************************)

\* the stores of create and open: without a callback, and with a callback
\* that answers <<1>>
LcStores ==
    { <<PasswordStoreNew(FALSE), NoCallback>>,
      <<PasswordStoreNew(TRUE), [ok |-> TRUE, val |-> <<1>>, msg |-> ""]>> }

LcCreate ==
    /\ HdFrame
    /\ \E cipher \in {"None", "Aes128Ctr"}, in \in LcStores :
         ContainerCreate(cipher, KdfPbkdf2("Sha256", 2, <<9, 8>>), <<7>>, in, 1)

LcOpen ==
    /\ HdFrame
    /\ \E in \in LcStores : ContainerOpen(in)

LcWrite ==
    /\ CtFrame
    /\ \E id \in BlockIds \cup {NullId} : CtWriteOf(id, <<1, 2>>)

LcRead ==
    /\ CtFrame
    /\ \E id \in BlockIds \cup {NullId} : CtReadOf(id, <<255>>)

LcNext ==
    LcCreate \/ LcOpen \/ CtAquire \/ CtRelease \/ LcWrite \/ LcRead \/ CtInfo

(***************************************************************************)
(* Migration (src/nuts-container/src/migrate/tests.rs): the caller may      *)
(* register one migration with the migrator; Migrator::migrate_rev0 hands   *)
(* the userdata of a revision 0 header to it.                              *)
(***************************************************************************)

\* the migrations a caller registers: OkSample and ErrSample of the tests,
\* and one that gives another service id and changes the bytes
Migrations == {"OkSample", "ErrSample", "Prefixing"}

\* Option<Migration>
NoMigration == [some |-> FALSE, v |-> ""]
SomeMigration(m) == [some |-> TRUE, v |-> m]

\* Migration::migrate_rev0(userdata) -> Result<(u32, Vec<u8>), String>
MigrationMigrateRev0(m, userdata) ==
    IF m = "OkSample"
    THEN [ok |-> TRUE, sid |-> 666, bytes |-> userdata, msg |-> ""]
    ELSE IF m = "Prefixing"
    THEN [ok |-> TRUE, sid |-> 7, bytes |-> <<255>> \o userdata, msg |-> ""]
    ELSE [ok |-> FALSE, sid |-> 0, bytes |-> <<>>, msg |-> "xxx"]

\* MigrationError::Rev0(cause)
MigrationErrorRev0(cause) == [kind |-> "Rev0", cause |-> cause]
NoMigrationError == [kind |-> "", cause |-> ""]

\* What the migrator hands to the migration: the variant that drops the
\* first byte.
MigrationInput_Tail(userdata) ==
    IF userdata = <<>> THEN userdata ELSE Tail(userdata)

\* the userdata is handed over as it is
MigrationInput(userdata) == userdata

\* The answer of a migrator without a migration: the variant that fails.
MigratorUnassigned_Fails(userdata) ==
    [some |-> TRUE, ok |-> FALSE, sid |-> 0, bytes |-> <<>>,
     err |-> MigrationErrorRev0("migration required"), given |-> NoBytes]

\* Ok(None)
MigratorUnassigned(userdata) ==
    [some |-> FALSE, ok |-> TRUE, sid |-> 0, bytes |-> <<>>,
     err |-> NoMigrationError, given |-> NoBytes]

\* Migrator::migrate_rev0(userdata)
\*   -> Result<Option<(u32, Vec<u8>)>, MigrationError>.
\* `given` is what the migration received.
MigratorMigrateRev0(migrator, userdata) ==
    IF ~migrator.some THEN MigratorUnassigned(userdata)
    ELSE Bind(MigrationMigrateRev0(migrator.v, MigrationInput(userdata)),
              LAMBDA r :
           IF r.ok
           THEN [some |-> TRUE, ok |-> TRUE, sid |-> r.sid,
                 bytes |-> r.bytes, err |-> NoMigrationError,
                 given |-> SomeBytes(MigrationInput(userdata))]
           ELSE [some |-> TRUE, ok |-> FALSE, sid |-> 0, bytes |-> <<>>,
                 err |-> MigrationErrorRev0(r.msg),
                 given |-> SomeBytes(MigrationInput(userdata))])

(***************************************************************************)
(* Header of the container crate, with revisions and migration             *)
(* (spec 4.D; src/nuts-container/src/header/tests.rs;                      *)
(* src/src/container/header/secret.rs).  Revision, cipher and kdf are u32, *)
(* iv and sealed secret are written even if the cipher is None.  The       *)
(* secret of revision 0 holds magics, key, iv, userdata and settings with  *)
(* lengths of eight bytes; the secret of revision 1 holds magics, key, iv, *)
(* top-id and settings with lengths of variable size.                      *)
(***************************************************************************)

VAR16 == 251
VAR32 == 252
VAR64 == 253
VAR128 == 254

\* Error::invalid_integer(expected, got)
InvalidInteger(expected, got) ==
    [ok |-> FALSE, v |-> <<>>, rest |-> <<>>, err |-> "InvalidInteger",
     expected |-> expected, got |-> got]

\* read_fix_u16 .. read_fix_u128: the n bytes of the value, big-endian
ReadFix(buf, n) == TakeBytes(buf, n)

\* Reader::read_var_u16.  The value is given by its big-endian bytes: the
\* leading byte itself, or the bytes behind it.
ReadVarU16(buf) ==
    Bind(FromBytesU8(buf), LAMBDA n :
      IF ~n.ok THEN n
      ELSE IF n.v = VAR16 THEN ReadFix(n.rest, 2)
      ELSE IF n.v = VAR32 THEN InvalidInteger("U16", "U32")
      ELSE IF n.v = VAR64 THEN InvalidInteger("U16", "U64")
      ELSE IF n.v = VAR128 THEN InvalidInteger("U16", "U128")
      ELSE ReadOk(<<n.v>>, n.rest))

\* Reader::read_var_u32
ReadVarU32(buf) ==
    Bind(FromBytesU8(buf), LAMBDA n :
      IF ~n.ok THEN n
      ELSE IF n.v = VAR16 THEN ReadFix(n.rest, 2)
      ELSE IF n.v = VAR32 THEN ReadFix(n.rest, 4)
      ELSE IF n.v = VAR64 THEN InvalidInteger("U32", "U64")
      ELSE IF n.v = VAR128 THEN InvalidInteger("U32", "U128")
      ELSE ReadOk(<<n.v>>, n.rest))

\* Reader::read_var_u64
ReadVarU64(buf) ==
    Bind(FromBytesU8(buf), LAMBDA n :
      IF ~n.ok THEN n
      ELSE IF n.v = VAR16 THEN ReadFix(n.rest, 2)
      ELSE IF n.v = VAR32 THEN ReadFix(n.rest, 4)
      ELSE IF n.v = VAR64 THEN ReadFix(n.rest, 8)
      ELSE IF n.v = VAR128 THEN InvalidInteger("U32", "U128")
      ELSE ReadOk(<<n.v>>, n.rest))

\* Reader::read_var_u128
ReadVarU128(buf) ==
    Bind(FromBytesU8(buf), LAMBDA n :
      IF ~n.ok THEN n
      ELSE IF n.v = VAR16 THEN ReadFix(n.rest, 2)
      ELSE IF n.v = VAR32 THEN ReadFix(n.rest, 4)
      ELSE IF n.v = VAR64 THEN ReadFix(n.rest, 8)
      ELSE IF n.v = VAR128 THEN ReadFix(n.rest, 16)
      ELSE ReadOk(<<n.v>>, n.rest))

\* a length of variable size: read_var_u64, the value as a number
ReadVarLen(buf) ==
    Bind(ReadVarU64(buf), LAMBDA n :
      IF ~n.ok THEN ReadErr(n.err)
      ELSE ReadOk(BeValue(<<0, 0>> \o n.v), n.rest))

\* a byte string behind a length of variable size
ReadVarBytes(buf) ==
    Bind(ReadVarLen(buf), LAMBDA len :
      IF ~len.ok THEN len
      ELSE IF len.v > Len(len.rest) THEN ReadErr("Eof")
      ELSE TakeBytes(len.rest, len.v))

\* Magics::try_from([u32; 2])
MagicsTryFrom(magic1, magic2) == magic1 = magic2

NoPlainSecret ==
    [key |-> <<>>, iv |-> <<>>, userdata |-> <<>>, top_id |-> NoBytes,
     settings |-> <<>>]

\* PlainSecret of revision 0: magics, key, iv, userdata, settings
PlainSecretRev0(pbuf) ==
    Bind(FromBytesU32(pbuf), LAMBDA magic1 :
      IF ~magic1.ok THEN magic1
      ELSE Bind(FromBytesU32(magic1.rest), LAMBDA magic2 :
        IF ~magic2.ok THEN magic2
        ELSE IF ~MagicsTryFrom(magic1.v, magic2.v)
        THEN ReadErr("WrongPassword")
        ELSE Bind(FromBytesVec(magic2.rest), LAMBDA key :
          IF ~key.ok THEN key
          ELSE Bind(FromBytesVec(key.rest), LAMBDA iv :
            IF ~iv.ok THEN iv
            ELSE Bind(FromBytesVec(iv.rest), LAMBDA userdata :
              IF ~userdata.ok THEN userdata
              ELSE ReadOk([NoPlainSecret EXCEPT !.key = key.v, !.iv = iv.v,
                              !.userdata = userdata.v,
                              !.settings = userdata.rest], <<>>))))))

\* PlainSecret of revision 1: magics, key, iv, top-id, settings.  An empty
\* top-id is no top-id.
PlainSecretRev1(pbuf) ==
    Bind(FromBytesU32(pbuf), LAMBDA magic1 :
      IF ~magic1.ok THEN magic1
      ELSE Bind(FromBytesU32(magic1.rest), LAMBDA magic2 :
        IF ~magic2.ok THEN magic2
        ELSE IF ~MagicsTryFrom(magic1.v, magic2.v)
        THEN ReadErr("WrongPassword")
        ELSE Bind(ReadVarBytes(magic2.rest), LAMBDA key :
          IF ~key.ok THEN key
          ELSE Bind(ReadVarBytes(key.rest), LAMBDA iv :
            IF ~iv.ok THEN iv
            ELSE Bind(ReadVarBytes(iv.rest), LAMBDA top_id :
              IF ~top_id.ok THEN top_id
              ELSE ReadOk([NoPlainSecret EXCEPT !.key = key.v, !.iv = iv.v,
                              !.top_id = IF top_id.v = <<>> THEN NoBytes
                                         ELSE SomeBytes(top_id.v),
                              !.settings = top_id.rest], <<>>))))))

\* Secret::decrypt(store, cipher, kdf, iv): the password is asked for only
\* if the cipher has a key.
SecretDecrypt(secret, st, cb, cipher, kdf, iv) ==
    IF CipherKeyLen(cipher) > 0
    THEN LET password == PasswordStoreValue(st, cb) IN
           IF ~password.ok THEN CipherErr("NoPassword")
           ELSE CipherDecrypt(cipher, KdfCreateKey(kdf, password.val), iv,
                              secret)
    ELSE CipherDecrypt(cipher, <<>>, iv, secret)

\* the revision of the header in memory: the variant that turns every
\* header into one of revision 1
RevisionInMemory_Upgraded(revision) == 1

\* the header in memory keeps the revision that was read
RevisionInMemory(revision) == revision

NoTopIdHeader ==
    [revision |-> -1, cipher |-> "None", kdf |-> KdfNone, key |-> <<>>,
     iv |-> <<>>, top_id |-> NoBytes]

\* the answer of the migrator when it was not asked
NotMigrated ==
    [some |-> FALSE, ok |-> TRUE, sid |-> 0, bytes |-> <<>>,
     err |-> NoMigrationError, given |-> NoBytes]

NoMigratingRead ==
    [ok |-> FALSE, err |-> "", header |-> NoTopIdHeader, settings |-> <<>>,
     revision |-> -1, migration |-> NotMigrated]

\* a read that came as far as the revision
MigratingReadOf(revision) == [NoMigratingRead EXCEPT !.revision = revision]

\* the secret of a header of the given revision
PlainSecretOf(revision, pbuf) ==
    IF revision = 0 THEN PlainSecretRev0(pbuf) ELSE PlainSecretRev1(pbuf)

\* the migration of a header of the given revision
MigrationOf(revision, migrator, plain) ==
    IF revision = 0 THEN MigratorMigrateRev0(migrator, plain.userdata)
    ELSE NotMigrated

\* the top-id of a header of the given revision
TopIdOf(revision, plain, m) ==
    IF revision # 0 THEN plain.top_id
    ELSE IF m.some THEN SomeBytes(m.bytes)
    ELSE NoBytes

\* Header::read(buf, migrator, store) of the container crate
MigratingHeaderRead(buf, migrator, st, cb) ==
    Bind(TakeBytes(buf, Len(MAGIC)), LAMBDA magic :
      IF ~magic.ok THEN [NoMigratingRead EXCEPT !.err = magic.err]
      ELSE IF magic.v # MAGIC
      THEN [NoMigratingRead EXCEPT !.err = "magic mismatch"]
      ELSE Bind(FromBytesU32(magic.rest), LAMBDA revision :
        IF ~revision.ok THEN [NoMigratingRead EXCEPT !.err = revision.err]
        ELSE Bind(BeValue(revision.v), LAMBDA rev :
          IF rev > 1 THEN [MigratingReadOf(rev) EXCEPT !.err = "invalid revision"]
          ELSE Bind(CipherFromBytes(revision.rest), LAMBDA cipher :
            IF ~cipher.ok THEN [MigratingReadOf(rev) EXCEPT !.err = cipher.err]
            ELSE Bind(FromBytesVec(cipher.rest), LAMBDA iv :
              IF ~iv.ok THEN [MigratingReadOf(rev) EXCEPT !.err = iv.err]
              ELSE Bind(KdfFromBytes(iv.rest), LAMBDA kdf :
                IF ~kdf.ok THEN [MigratingReadOf(rev) EXCEPT !.err = kdf.err]
                ELSE Bind(FromBytesVec(kdf.rest), LAMBDA secret :
                  IF ~secret.ok
                  THEN [MigratingReadOf(rev) EXCEPT !.err = secret.err]
                  ELSE Bind(SecretDecrypt(secret.v, st, cb, cipher.v, kdf.v,
                                          iv.v), LAMBDA pbuf :
                    IF ~pbuf.ok
                    THEN [MigratingReadOf(rev) EXCEPT !.err = pbuf.err]
                    ELSE Bind(PlainSecretOf(rev, pbuf.out), LAMBDA plain :
                      IF ~plain.ok
                      THEN [MigratingReadOf(rev) EXCEPT !.err = plain.err]
                      ELSE Bind(MigrationOf(rev, migrator, plain.v), LAMBDA m :
                        IF ~m.ok
                        THEN [MigratingReadOf(rev) EXCEPT
                                !.err = "MigrationFailed", !.migration = m]
                        ELSE [MigratingReadOf(rev) EXCEPT
                                !.ok = TRUE, !.migration = m,
                                !.settings = plain.v.settings,
                                !.header =
                                  [revision |-> RevisionInMemory(rev),
                                   cipher |-> cipher.v,
                                   kdf |-> kdf.v,
                                   key |-> plain.v.key,
                                   iv |-> plain.v.iv,
                                   top_id |-> TopIdOf(rev, plain.v, m)]]
                      ))))))))))

\* the header of revision 0 of the tests
REV0 ==
    <<110, 117, 116, 115, 45, 105, 111,
      0, 0, 0, 0,
      0, 0, 0, 0,
      0, 0, 0, 0, 0, 0, 0, 0,
      0, 0, 0, 0,
      0, 0, 0, 0, 0, 0, 0, 44,
      145, 192, 178, 207, 145, 192, 178, 207,
      0, 0, 0, 0, 0, 0, 0, 0,
      0, 0, 0, 0, 0, 0, 0, 0,
      0, 0, 0, 0, 0, 0, 0, 4, 0, 0, 18, 103,
      0, 0, 0, 0, 0, 0, 0, 0>>

\* the header of revision 1 of the tests
REV1 ==
    <<110, 117, 116, 115, 45, 105, 111,
      0, 0, 0, 1,
      0, 0, 0, 0,
      0, 0, 0, 0, 0, 0, 0, 0,
      0, 0, 0, 0,
      0, 0, 0, 0, 0, 0, 0, 17,
      145, 192, 178, 207, 145, 192, 178, 207,
      0,
      0,
      4, 0, 0, 18, 103,
      0, 0>>

\* REV0 with another userdata
Rev0Header(userdata) ==
    SubSeq(REV0, 1, 27)
    \o ToBytesVec(SubSeq(REV0, 36, 59) \o ToBytesVec(userdata)
                  \o SubSeq(REV0, 72, 79))

Userdatas == { <<>>, <<9>>, <<1, 2, 3>>, <<0, 0, 18, 103>> }

\* the header slots read: revision 0 with each userdata, revision 1, and
\* revision 1 with the revision field set to 2
StoredHeaders ==
    { Rev0Header(u) : u \in Userdatas } \cup
    { REV1, [REV1 EXCEPT ![11] = 2] }

NoMgLast ==
    [op |-> "none", userdata |-> <<>>, migration |-> NotMigrated,
     read |-> NoMigratingRead]

\* the migrator while another subsystem runs
MgIdle ==
    /\ mg_migrator = NoMigration
    /\ mg_slot = <<>>
    /\ mg_last = NoMgLast

MgFrame == UNCHANGED <<pwVars, ctVars, hdVars, cdVars, arVars, stVars, svVars>>

\* Migrator::default().with_migration(m)
MgWithMigration ==
    /\ MgFrame
    /\ \E m \in Migrations :
         /\ mg_migrator' = SomeMigration(m)
         /\ mg_last' = [NoMgLast EXCEPT !.op = "with_migration"]
         /\ UNCHANGED mg_slot

\* migrator.migrate_rev0(userdata)
MgMigrateRev0 ==
    /\ MgFrame
    /\ \E u \in Userdatas :
         /\ mg_last' = [NoMgLast EXCEPT !.op = "migrate_rev0", !.userdata = u,
                          !.migration = MigratorMigrateRev0(mg_migrator, u)]
         /\ UNCHANGED <<mg_migrator, mg_slot>>

\* Header::read(&slot, migrator, &mut PasswordStore::new(None))
MgRead ==
    /\ MgFrame
    /\ LET r == MigratingHeaderRead(mg_slot, mg_migrator,
                    PasswordStoreNew(FALSE),
                    [ok |-> FALSE, val |-> <<>>, msg |-> "no tty"])
       IN  mg_last' = [NoMgLast EXCEPT !.op = "read", !.read = r,
                         !.migration = r.migration]
    /\ UNCHANGED <<mg_migrator, mg_slot>>

MgNext == MgWithMigration \/ MgMigrateRev0 \/ MgRead

(***************************************************************************)
(* Specifications                                                          *)
(***************************************************************************)

(***************************************************************************)
(* A Reader in variable integer mode (src/nuts-bytes/src/reader.rs): one   *)
(* buffer, read as u16, u32, u64 and u128.                                 *)
(***************************************************************************)

\* the leading bytes: values, the four width marks, and the byte above them
LeadBytes == {0, 1, 250, VAR16, VAR32, VAR64, VAR128, 255}

\* the buffers: a leading byte and the bytes 1, 2, .. behind it
ReaderInputs ==
    { <<b>> \o [i \in 1..n |-> i] :
        b \in LeadBytes, n \in {0, 1, 2, 4, 8, 16, MaxTail} }

NoCdLast ==
    [op |-> "none", type |-> "", ok |-> TRUE, v |-> <<>>, rest |-> <<>>,
     err |-> "", expected |-> "", got |-> ""]

\* what a read has returned
CdLastOf(op, type, r) ==
    [op |-> op, type |-> type, ok |-> r.ok, v |-> r.v, rest |-> r.rest,
     err |-> r.err,
     expected |-> IF r.err = "InvalidInteger" THEN r.expected ELSE "",
     got |-> IF r.err = "InvalidInteger" THEN r.got ELSE ""]

\* the reader while another subsystem runs
CdIdle ==
    /\ cd_buf = <<>>
    /\ cd_last = NoCdLast

CdFrame == UNCHANGED <<pwVars, ctVars, hdVars, mgVars, arVars, stVars, svVars>>

CdReadVarU16 ==
    /\ CdFrame
    /\ cd_last' = CdLastOf("read_var", "U16", ReadVarU16(cd_buf))
    /\ UNCHANGED cd_buf

CdReadVarU32 ==
    /\ CdFrame
    /\ cd_last' = CdLastOf("read_var", "U32", ReadVarU32(cd_buf))
    /\ UNCHANGED cd_buf

CdReadVarU64 ==
    /\ CdFrame
    /\ cd_last' = CdLastOf("read_var", "U64", ReadVarU64(cd_buf))
    /\ UNCHANGED cd_buf

CdReadVarU128 ==
    /\ CdFrame
    /\ cd_last' = CdLastOf("read_var", "U128", ReadVarU128(cd_buf))
    /\ UNCHANGED cd_buf

CdNext == CdReadVarU16 \/ CdReadVarU32 \/ CdReadVarU64 \/ CdReadVarU128

\* ---------------------------------------------------------------------
\* Archive entries: the builders and EntryMut of src/src/entry/mut.rs on
\* top of the tree of block ids and the archive header.
\* ---------------------------------------------------------------------

SomeId(id) == [some |-> TRUE, v |-> id]

NoId == [some |-> FALSE, v |-> 0]

\* no builder is alive
NoBuilder == [kind |-> "", len |-> 0]

\* The archive right after its creation: nothing acquired, no entry, no
\* EntryMut alive (open = 0), no builder alive.
ArFresh ==
    [next |-> 1, tree |-> <<>>, nfiles |-> 0, entries |-> <<>>, open |-> 0,
     builder |-> NoBuilder]

ArResult(ok, a, id, nbytes) == [ok |-> ok, a |-> a, id |-> id, nbytes |-> nbytes]

\* Container::aquire of the archive's container: the backend hands out the
\* next unused id and fails once it has none left.
ArAquire(a) ==
    IF a.next > MaxArIds
    THEN ArResult(FALSE, a, 0, 0)
    ELSE ArResult(TRUE, [a EXCEPT !.next = @ + 1], a.next, 0)

\* The new id takes the next free leaf slot.
TreeAppend(tree, id) == Append(tree, id)

\* Tree::aquire: a full (or missing) leaf node is replaced by a newly
\* acquired one, then the new block is acquired and stored in the next
\* leaf slot.  Without enough blocks nothing is changed.
TreeAquire(a) ==
    Bind(IF Len(a.tree) % TreeFanout = 0 THEN ArAquire(a) ELSE ArResult(TRUE, a, 0, 0),
         LAMBDA node :
            IF ~node.ok THEN ArResult(FALSE, a, 0, 0)
            ELSE Bind(ArAquire(node.a), LAMBDA blk :
                    IF ~blk.ok THEN ArResult(FALSE, a, 0, 0)
                    ELSE ArResult(TRUE,
                                  [blk.a EXCEPT !.tree = TreeAppend(@, blk.id)],
                                  blk.id, 0)))

\* Tree::lookup: the id in leaf slot idx (counted from 0), none beyond the
\* last used slot.
TreeLookup(a, idx) ==
    IF idx < Len(a.tree) THEN SomeId(a.tree[idx + 1]) ELSE NoId

IncFiles_Twice(nfiles) == nfiles + 2

IncFiles_Never(nfiles) == nfiles

\* Header::inc_files
IncFiles(nfiles) == nfiles + 1

\* A new entry with its head block `first`: size is the size in memory,
\* psize the size last flushed into the head block, pcontent the number of
\* content bytes the container holds in the entry's content blocks, blocks
\* the blocks acquired for content.
NewEntry(kind, id) ==
    [kind |-> kind, first |-> id, last |-> id, size |-> 0, psize |-> 0,
     pcontent |-> 0, blocks |-> <<>>]

\* InnerBuilder::build: acquire the head block through the tree, flush the
\* (empty) entry into it, count the entry in the header, flush the header,
\* hand out the EntryMut.
InnerBuild(a, kind) ==
    Bind(TreeAquire(a), LAMBDA t :
        IF ~t.ok THEN ArResult(FALSE, a, 0, 0)
        ELSE ArResult(TRUE,
                      [t.a EXCEPT !.entries = Append(@, NewEntry(kind, t.id)),
                                  !.nfiles = IncFiles(@),
                                  !.open = Len(t.a.entries) + 1],
                      t.id, 0))

\* The steps of EntryMut::write that can fail.
WriteFailures == {"none", "aquire", "write", "flush", "flush_header"}

ContainerWriteCache_Lost(e, nbytes) == e

\* container.write(&self.last, &self.cache): the block holds the bytes of
\* the cache, which are the entry's bytes up to size + nbytes.
ContainerWriteCache(e, nbytes) == [e EXCEPT !.pcontent = e.size + nbytes]

\* self.entry.size += nbytes
IncSize(e, nbytes) == [e EXCEPT !.size = @ + nbytes]

\* self.entry.flush(container, &self.first)
EntryFlush(e) == [e EXCEPT !.psize = e.size]

\* A write that starts at a block boundary acquires a new content block.
WriteAquires(pos) == pos = 0

SetOpen(a, e) == [a EXCEPT !.entries[a.open] = e]

Available_Whole(pos) == ArBlockSize

Available_None(pos) == 0

\* the space left in the block behind position pos
Available(pos) == ArBlockSize - pos

\* The first half of EntryMut::write: the position in the last block and,
\* at a block boundary, the new content block from the tree.
WriteBlock(a, fail) ==
    Bind(a.entries[a.open].size % ArBlockSize, LAMBDA pos :
        IF ~WriteAquires(pos) THEN ArResult(TRUE, a, 0, Available(pos))
        ELSE IF fail = "aquire" THEN ArResult(FALSE, a, 0, 0)
        ELSE Bind(TreeAquire(a), LAMBDA t :
                IF ~t.ok THEN ArResult(FALSE, a, 0, 0)
                ELSE ArResult(TRUE,
                              [t.a EXCEPT !.entries[a.open].last = t.id,
                                          !.entries[a.open].blocks = Append(@, t.id)],
                              t.id, Available(pos))))

\* EntryMut::write of len bytes, where the step `fail` fails: the cache is
\* written to the container, then the size grows and the entry is flushed
\* into its head block, then the header is flushed.  nbytes of the first
\* half is the space available in the block.
EntryWrite(a, len, fail) ==
    Bind(WriteBlock(a, fail), LAMBDA b :
        IF ~b.ok THEN b
        ELSE IF fail = "write" THEN ArResult(FALSE, b.a, 0, 0)
        ELSE Bind(Min(len, b.nbytes), LAMBDA nbytes :
            Bind(IncSize(ContainerWriteCache(b.a.entries[a.open], nbytes), nbytes),
                 LAMBDA e :
                    IF fail = "flush" THEN ArResult(FALSE, SetOpen(b.a, e), 0, 0)
                    ELSE ArResult(fail # "flush_header",
                                  SetOpen(b.a, EntryFlush(e)), 0,
                                  IF fail = "flush_header" THEN 0 ELSE nbytes))))

RECURSIVE WriteAll(_, _)
\* EntryMut::write_all: write until the buffer is empty or a write fails.
WriteAll(a, len) ==
    IF len = 0 THEN ArResult(TRUE, a, 0, 0)
    ELSE Bind(EntryWrite(a, len, "none"), LAMBDA w :
            IF ~w.ok THEN w ELSE WriteAll(w.a, len - w.nbytes))

\* Dropping the EntryMut.
Closed(r) == [r EXCEPT !.a.open = 0]

\* SymlinkBuilder::build: build the entry, then write the target as its
\* content.
SymlinkBuild(a, len) ==
    Bind(InnerBuild(a, "symlink"), LAMBDA b :
        IF ~b.ok THEN b ELSE Closed(WriteAll(b.a, len)))

NewBuilder_Aquires(a, kind, len) ==
    [TreeAquire(a).a EXCEPT !.builder = [kind |-> kind, len |-> len], !.open = 0]

\* FileBuilder::new, DirectoryBuilder::new, SymlinkBuilder::new: the
\* builder holds the archive (an EntryMut cannot be alive beside it), the
\* new entry with its name and mode and, for a symlink, the target
NewBuilder(a, kind, len) ==
    [a EXCEPT !.builder = [kind |-> kind, len |-> len], !.open = 0]

\* the builder goes out of scope
DropBuilder(a) == [a EXCEPT !.builder = NoBuilder]

\* build() of the builder that is alive
BuildPending(a) ==
    IF a.builder.kind = "file" THEN InnerBuild(DropBuilder(a), "file")
    ELSE IF a.builder.kind = "directory"
         THEN Closed(InnerBuild(DropBuilder(a), "directory"))
    ELSE SymlinkBuild(DropBuilder(a), a.builder.len)

NoArLast ==
    [op |-> "", ok |-> FALSE, len |-> 0, fail |-> "", nbytes |-> 0,
     idx |-> 0, id |-> NoId, pos |-> 0, rest |-> 0, start |-> 0]

ArIdle ==
    /\ ar_state = ArFresh
    /\ ar_last = NoArLast

ArFrame == UNCHANGED <<pwVars, ctVars, hdVars, mgVars, cdVars, stVars, svVars>>

\* the block a successful write stored its bytes in, and the offset of the
\* first of them in the block
StoredIn(r) == IF r.ok THEN SomeId(r.a.entries[r.a.open].last) ELSE NoId

StoredAt(a, r) == IF r.ok THEN a.entries[a.open].size % ArBlockSize ELSE 0

\* FileBuilder::build
ArBuildFile ==
    /\ ArFrame
    /\ \E r \in { InnerBuild(ar_state, "file") } :
        /\ ar_state' = r.a
        /\ ar_last' = [NoArLast EXCEPT !.op = "file", !.ok = r.ok]

\* DirectoryBuilder::build
ArBuildDirectory ==
    /\ ArFrame
    /\ \E r \in { Closed(InnerBuild(ar_state, "directory")) } :
        /\ ar_state' = r.a
        /\ ar_last' = [NoArLast EXCEPT !.op = "directory", !.ok = r.ok]

\* SymlinkBuilder::build with a target of len bytes
ArBuildSymlink ==
    /\ ArFrame
    /\ \E len \in 0..MaxWriteLen :
        \E r \in { SymlinkBuild(ar_state, len) } :
            /\ ar_state' = r.a
            /\ ar_last' = [NoArLast EXCEPT !.op = "symlink", !.ok = r.ok,
                                           !.len = len]

\* EntryMut::write on the entry whose EntryMut is alive
ArWrite ==
    /\ ArFrame
    /\ ar_state.open # 0
    /\ \E len \in 0..MaxWriteLen, fail \in WriteFailures :
        /\ fail = "aquire" => WriteAquires(ar_state.entries[ar_state.open].size % ArBlockSize)
        /\ \E r \in { EntryWrite(ar_state, len, fail) } :
            /\ ar_state' = r.a
            /\ ar_last' = [NoArLast EXCEPT !.op = "write", !.ok = r.ok,
                                           !.len = len, !.fail = fail,
                                           !.nbytes = r.nbytes,
                                           !.id = StoredIn(r),
                                           !.pos = StoredAt(ar_state, r)]

\* Tree::lookup of a slot up to the first unused one
ArLookup ==
    /\ ArFrame
    /\ \E idx \in 0..Len(ar_state.tree) :
        /\ ar_state' = ar_state
        /\ ar_last' = [NoArLast EXCEPT !.op = "lookup", !.ok = TRUE,
                                       !.idx = idx,
                                       !.id = TreeLookup(ar_state, idx)]

\* a builder is created and kept
ArNewBuilder ==
    /\ ArFrame
    /\ ar_state.builder = NoBuilder
    /\ \E kind \in {"file", "directory", "symlink"}, len \in 0..1 :
        /\ len > 0 => kind = "symlink"
        /\ ar_state' = NewBuilder(ar_state, kind, len)
        /\ ar_last' = [NoArLast EXCEPT !.op = "new", !.ok = TRUE, !.len = len]

\* the builder is dropped without build()
ArDropBuilder ==
    /\ ArFrame
    /\ ar_state.builder # NoBuilder
    /\ ar_state' = DropBuilder(ar_state)
    /\ ar_last' = [NoArLast EXCEPT !.op = "drop", !.ok = TRUE]

\* build() of the builder
ArBuildPending ==
    /\ ArFrame
    /\ ar_state.builder # NoBuilder
    /\ \E r \in { BuildPending(ar_state) } :
        /\ ar_state' = r.a
        /\ ar_last' = [NoArLast EXCEPT !.op = ar_state.builder.kind,
                                       !.ok = r.ok,
                                       !.len = ar_state.builder.len]

\* EntryMut::write of one block's worth of bytes on the file just built
ArWriteBlock ==
    /\ ArFrame
    /\ ar_state.open # 0
    /\ ar_state.builder = NoBuilder
    /\ \E r \in { EntryWrite(ar_state, ArBlockSize, "none") } :
        /\ ar_state' = r.a
        /\ ar_last' = [NoArLast EXCEPT !.op = "write", !.ok = r.ok,
                                       !.len = ArBlockSize, !.fail = "none",
                                       !.nbytes = r.nbytes]

\* EntryMut::write_all is called with a buffer of len bytes; rest is the
\* part of the buffer the loop has not written yet
ArWriteAllCall ==
    /\ ArFrame
    /\ ar_state.open # 0
    /\ ar_last.op # "write_all"
    /\ \E len \in 0..MaxWriteAllLen :
        /\ ar_state' = ar_state
        /\ ar_last' = [NoArLast EXCEPT !.op = "write_all", !.ok = TRUE,
                                       !.len = len, !.rest = len,
                                       !.start = ar_state.entries[ar_state.open].size]

\* one pass of the loop of write_all: leave with Ok(()) if the rest is
\* empty, else write, leave with the error if the write failed, and go on
\* with what the write did not take
ArWriteAllLoop ==
    /\ ArFrame
    /\ ar_last.op = "write_all"
    /\ IF ar_last.rest = 0
       THEN /\ ar_state' = ar_state
            /\ ar_last' = [ar_last EXCEPT !.op = "write_all_ok"]
       ELSE \E w \in { EntryWrite(ar_state, ar_last.rest, "none") } :
            /\ ar_state' = w.a
            /\ ar_last' = IF w.ok
                          THEN [ar_last EXCEPT !.rest = @ - w.nbytes,
                                               !.nbytes = w.nbytes]
                          ELSE [ar_last EXCEPT !.op = "write_all_err",
                                               !.ok = FALSE]

\* FileBuilder::build, while no write_all is running
ArBuildFileIdle ==
    /\ ar_last.op # "write_all"
    /\ ArBuildFile

WaNext ==
    \/ ArBuildFileIdle
    \/ ArWriteAllCall
    \/ ArWriteAllLoop

\* EntryMut::write with every buffer, where no container operation is made
\* to fail
ArWriteOk ==
    /\ ArFrame
    /\ ar_state.open # 0
    /\ \E len \in 0..MaxWriteLen :
        \E r \in { EntryWrite(ar_state, len, "none") } :
            /\ ar_state' = r.a
            /\ ar_last' = [NoArLast EXCEPT !.op = "write", !.ok = r.ok,
                                           !.len = len, !.fail = "none",
                                           !.nbytes = r.nbytes,
                                           !.id = StoredIn(r),
                                           !.pos = StoredAt(ar_state, r)]

WrNext ==
    \/ ArBuildFile
    \/ ArWriteOk

BdNext ==
    \/ ArNewBuilder
    \/ ArDropBuilder
    \/ ArBuildPending
    \/ ArWriteBlock

ArNext ==
    \/ ArBuildFile
    \/ ArBuildDirectory
    \/ ArBuildSymlink
    \/ ArWrite
    \/ ArLookup

\* ---------------------------------------------------------------------
\* Block stream: a doubly linked chain of blocks, each with the links
\* {prev, next}, and a cursor (src/src/stream/tests/insert.rs).
\* ---------------------------------------------------------------------

\* the link of a block without neighbour, and the cursor that has not been
\* advanced yet
StNull == [some |-> FALSE, v |-> 0]

StId(id) == [some |-> TRUE, v |-> id]

\* Stream::create: no block, the cursor not advanced.  blocks maps the ids
\* of the written blocks to their links, free is the next id the container
\* hands out.
StEmpty ==
    [blocks |-> <<>>, head |-> StNull, cur |-> StNull, free |-> 1,
     crashed |-> FALSE]

StLinks(prev, next) == [prev |-> prev, next |-> next]

RECURSIVE WalkNext(_, _, _)
\* the ids that next() returns one after the other, starting at `from`
WalkNext(blocks, from, fuel) ==
    IF ~from.some \/ fuel = 0 \/ from.v \notin DOMAIN blocks THEN <<>>
    ELSE <<from.v>> \o WalkNext(blocks, blocks[from.v].next, fuel - 1)

RECURSIVE WalkPrev(_, _, _)
\* the ids that prev() returns one after the other, starting at `from`
WalkPrev(blocks, from, fuel) ==
    IF ~from.some \/ fuel = 0 \/ from.v \notin DOMAIN blocks THEN <<>>
    ELSE <<from.v>> \o WalkPrev(blocks, blocks[from.v].prev, fuel - 1)

Reverse(s) == [i \in 1..Len(s) |-> s[Len(s) + 1 - i]]

\* the blocks of the chain from its head to its tail
Chain(s) == WalkNext(s.blocks, s.head, MaxStreamIds + 1)

\* the written blocks, with block id holding links
PutBlock(blocks, id, links) ==
    [i \in (DOMAIN blocks) \cup {id} |-> IF i = id THEN links ELSE blocks[i]]

\* the written blocks without block id
DropBlock(blocks, id) == [i \in (DOMAIN blocks) \ {id} |-> blocks[i]]

\* where insert links the new block: behind the block of the cursor, in
\* front of the first block with a cursor that was not advanced
InsertPrev(s) == s.cur

InsertNext(s) ==
    IF InsertPrev(s).some THEN s.blocks[InsertPrev(s).v].next ELSE s.head

SuccessorWrite_Missing(s, id) == {}

\* the write that makes the successor point back to the new block
SuccessorWrite(s, id) ==
    IF InsertNext(s).some
    THEN {[id |-> InsertNext(s).v,
           links |-> [s.blocks[InsertNext(s).v] EXCEPT !.prev = StId(id)]]}
    ELSE {}

\* the write that makes the predecessor point to the new block
PredecessorWrite(s, id) ==
    IF InsertPrev(s).some
    THEN {[id |-> InsertPrev(s).v,
           links |-> [s.blocks[InsertPrev(s).v] EXCEPT !.next = StId(id)]]}
    ELSE {}

\* the write of the new block with its two links
NewBlockWrite(s, id) ==
    {[id |-> id, links |-> StLinks(InsertPrev(s), InsertNext(s))]}

RECURSIVE ApplyWrites(_, _)
ApplyWrites(blocks, writes) ==
    IF writes = {} THEN blocks
    ELSE Bind(CHOOSE w \in writes : TRUE, LAMBDA w :
            ApplyWrites(PutBlock(blocks, w.id, w.links), writes \ {w}))

\* the block writes of an insert
InsertWrites(s, id) ==
    NewBlockWrite(s, id) \cup PredecessorWrite(s, id) \cup SuccessorWrite(s, id)

FirstWrite_Predecessor(s, id) == PredecessorWrite(s, id)

\* the write an insert starts with
FirstWrite(s, id) == NewBlockWrite(s, id)

CursorAfterInsert_Stays(s, id) == s.cur

\* the cursor ends on the new block
CursorAfterInsert(s, id) == StId(id)

\* Stream::insert: acquire a block, write it with its links, write the
\* links of its neighbours, put the cursor on it
StreamInsert(s) ==
    Bind(s.free, LAMBDA id :
        [s EXCEPT !.blocks = ApplyWrites(s.blocks, InsertWrites(s, id)),
                  !.head = IF InsertPrev(s).some THEN s.head ELSE StId(id),
                  !.cur = CursorAfterInsert(s, id),
                  !.free = id + 1])

\* the prefixes of the block writes of an insert that is interrupted: the
\* new block is written first, its neighbours after it in either order;
\* the last write is missing
InsertPrefixes(s) ==
    Bind(InsertWrites(s, s.free) \ FirstWrite(s, s.free), LAMBDA rest :
        {{}} \cup {FirstWrite(s, s.free) \cup n : n \in (SUBSET rest) \ {rest}})

\* Stream::insert interrupted after the writes of `prefix`: the block is
\* acquired, the head known to the owner stays
StreamInsertInterrupted(s, prefix) ==
    [s EXCEPT !.blocks = ApplyWrites(s.blocks, prefix),
              !.free = s.free + 1,
              !.crashed = TRUE]

\* Stream::remove of the block of the cursor: its neighbours are linked to
\* each other, the block is released; the cursor moves to `cur`
StreamRemove(s, cur) ==
    Bind(s.blocks[s.cur.v], LAMBDA b :
        Bind(IF b.prev.some
             THEN PutBlock(s.blocks, b.prev.v, [s.blocks[b.prev.v] EXCEPT !.next = b.next])
             ELSE s.blocks, LAMBDA b1 :
            Bind(IF b.next.some
                 THEN PutBlock(b1, b.next.v, [b1[b.next.v] EXCEPT !.prev = b.prev])
                 ELSE b1, LAMBDA b2 :
                [s EXCEPT !.blocks = DropBlock(b2, s.cur.v),
                          !.head = IF s.head = s.cur THEN b.next ELSE s.head,
                          !.cur = cur])))

\* Stream::next: the first block with a cursor that was not advanced, the
\* next block otherwise; at the end the cursor stays
StreamNext(s) == IF s.cur.some THEN s.blocks[s.cur.v].next ELSE s.head

\* Stream::prev: the previous block; at the start the cursor stays
StreamPrev(s) == IF s.cur.some THEN s.blocks[s.cur.v].prev ELSE StNull

NoStLast == [op |-> "", id |-> StNull, before |-> <<>>, at |-> StNull,
             after |-> <<>>]

StIdle ==
    /\ st_state = StEmpty
    /\ st_last = NoStLast

StFrame == UNCHANGED <<pwVars, ctVars, hdVars, mgVars, cdVars, arVars, svVars>>

StInsert ==
    /\ StFrame
    /\ ~st_state.crashed
    /\ st_state.free <= MaxStreamIds
    /\ st_state' = StreamInsert(st_state)
    /\ st_last' = [NoStLast EXCEPT !.op = "insert", !.id = StId(st_state.free),
                                   !.before = Chain(st_state),
                                   !.at = st_state.cur]

StInsertInterrupted ==
    /\ StFrame
    /\ ~st_state.crashed
    /\ st_state.free <= MaxStreamIds
    /\ \E prefix \in InsertPrefixes(st_state) :
        /\ st_state' = StreamInsertInterrupted(st_state, prefix)
        /\ st_last' = [NoStLast EXCEPT !.op = "interrupted",
                                       !.id = StId(st_state.free),
                                       !.before = Chain(st_state),
                                       !.at = st_state.cur,
                                       !.after = Chain(StreamInsert(st_state))]

StRemove ==
    /\ StFrame
    /\ ~st_state.crashed
    /\ st_state.cur.some
    /\ \E cur \in {StNull, st_state.blocks[st_state.cur.v].prev,
                   st_state.blocks[st_state.cur.v].next} :
        /\ st_state' = StreamRemove(st_state, cur)
        /\ st_last' = [NoStLast EXCEPT !.op = "remove", !.id = st_state.cur,
                                       !.before = Chain(st_state),
                                       !.at = st_state.cur]

StStepNext ==
    /\ StFrame
    /\ ~st_state.crashed
    /\ st_state' = IF StreamNext(st_state).some
                   THEN [st_state EXCEPT !.cur = StreamNext(st_state)]
                   ELSE st_state
    /\ st_last' = [NoStLast EXCEPT !.op = "next", !.id = StreamNext(st_state)]

StStepPrev ==
    /\ StFrame
    /\ ~st_state.crashed
    /\ st_state' = IF StreamPrev(st_state).some
                   THEN [st_state EXCEPT !.cur = StreamPrev(st_state)]
                   ELSE st_state
    /\ st_last' = [NoStLast EXCEPT !.op = "prev", !.id = StreamPrev(st_state)]

StNext ==
    \/ StInsert
    \/ StInsertInterrupted
    \/ StRemove
    \/ StStepNext
    \/ StStepPrev

\* ---------------------------------------------------------------------
\* The archive service on top of a container, as the nuts tool runs it
\* (src/nuts-tool/src/cli.rs, src/nuts-tool/tests/archive.rs).
\* ---------------------------------------------------------------------

\* the names and the passwords of the tool's tests
ToolContainers == {"sample", "sample1"}

ToolPasswords == {"123", "xxx"}

\* a name the tool has no container for
NoToolContainer ==
    [exists |-> FALSE, password |-> "", top_id |-> NoId, sid |-> 0,
     nfiles |-> 0]

\* `container create`: the container has no service yet
NewToolContainer(pass) ==
    [exists |-> TRUE, password |-> pass, top_id |-> NoId, sid |-> 0,
     nfiles |-> 0]

ToolOk(c, stdout) == [code |-> 0, stderr |-> "", stdout |-> stdout, c |-> c]

\* an error leaves through main with exit code 1 and its message on stderr
ToolErr(c, msg) == [code |-> 1, stderr |-> msg, stdout |-> "", c |-> c]

NoSuchContainer == "no such container"

WrongPassword == "the password is wrong"

AlreadyAcquired == "the container is already acquired by a service (sid = 0x61726368)"

NoService == "the container has no service"

\* open_container: the name must be known, Container::open reads the
\* header with the password
ToolOpenContainer(c, pass) ==
    IF ~c.exists THEN ToolErr(c, NoSuchContainer)
    ELSE IF pass # c.password THEN ToolErr(c, WrongPassword)
    ELSE ToolOk(c, "")

IsAcquired_Never(c) == FALSE

\* a service has acquired the container
IsAcquired(c) == c.top_id.some

\* Archive::create: acquire the container for the archive service (the
\* top-id becomes the block of the archive header), then append the paths
ArchiveCreate(c, paths) ==
    IF IsAcquired(c) THEN ToolErr(c, AlreadyAcquired)
    ELSE ToolOk([c EXCEPT !.top_id = SomeId(1), !.sid = ArchiveSid,
                          !.nfiles = paths], "")

\* Archive::open, then append the paths
ArchiveAdd(c, paths) ==
    IF ~IsAcquired(c) THEN ToolErr(c, NoService)
    ELSE ToolOk([c EXCEPT !.nfiles = Min(MaxToolFiles, @ + paths)], "")

\* `archive create --container name`
ToolArchiveCreate(c, pass, paths) ==
    Bind(ToolOpenContainer(c, pass), LAMBDA o :
        IF o.code # 0 THEN o ELSE ArchiveCreate(c, paths))

\* `archive add --container name`
ToolArchiveAdd(c, pass, paths) ==
    Bind(ToolOpenContainer(c, pass), LAMBDA o :
        IF o.code # 0 THEN o ELSE ArchiveAdd(c, paths))

\* `archive info --container name`
ToolArchiveInfo(c, pass) ==
    Bind(ToolOpenContainer(c, pass), LAMBDA o :
        IF o.code # 0 THEN o
        ELSE IF ~IsAcquired(c) THEN ToolErr(c, NoService)
        ELSE ToolOk(c, "files"))

NoSvLast ==
    [op |-> "", name |-> "", pass |-> "", code |-> 0, stderr |-> "",
     stdout |-> "", files |-> 0]

SvLastOf(op, name, pass, r) ==
    [op |-> op, name |-> name, pass |-> pass, code |-> r.code,
     stderr |-> r.stderr, stdout |-> r.stdout, files |-> r.c.nfiles]

SvIdle ==
    /\ sv_state = [n \in ToolContainers |-> NoToolContainer]
    /\ sv_last = NoSvLast

SvFrame == UNCHANGED <<pwVars, ctVars, hdVars, mgVars, cdVars, arVars, stVars>>

SvContainerCreate ==
    /\ SvFrame
    /\ \E name \in ToolContainers, pass \in ToolPasswords :
        /\ ~sv_state[name].exists
        /\ sv_state' = [sv_state EXCEPT ![name] = NewToolContainer(pass)]
        /\ sv_last' = SvLastOf("container create", name, pass,
                               ToolOk(NewToolContainer(pass), ""))

SvArchiveCreate ==
    /\ SvFrame
    /\ \E name \in ToolContainers, pass \in ToolPasswords, paths \in 0..1 :
        \E r \in { ToolArchiveCreate(sv_state[name], pass, paths) } :
            /\ sv_state' = [sv_state EXCEPT ![name] = r.c]
            /\ sv_last' = SvLastOf("archive create", name, pass, r)

SvArchiveAdd ==
    /\ SvFrame
    /\ \E name \in ToolContainers, pass \in ToolPasswords :
        \E r \in { ToolArchiveAdd(sv_state[name], pass, 1) } :
            /\ sv_state' = [sv_state EXCEPT ![name] = r.c]
            /\ sv_last' = SvLastOf("archive add", name, pass, r)

SvArchiveInfo ==
    /\ SvFrame
    /\ \E name \in ToolContainers, pass \in ToolPasswords :
        \E r \in { ToolArchiveInfo(sv_state[name], pass) } :
            /\ sv_state' = [sv_state EXCEPT ![name] = r.c]
            /\ sv_last' = SvLastOf("archive info", name, pass, r)

SvNext ==
    \/ SvContainerCreate
    \/ SvArchiveCreate
    \/ SvArchiveAdd
    \/ SvArchiveInfo

InitPassword ==
    /\ ps_store \in { PasswordStoreNew(c) : c \in BOOLEAN } \cup
                    { PasswordStoreWithValue(p) : p \in Passwords }
    /\ ps_trace = <<>>
    /\ CtIdle
    /\ HdIdle
    /\ MgIdle
    /\ CdIdle
    /\ ArIdle
    /\ StIdle
    /\ SvIdle

SpecPassword == InitPassword /\ [][PsNext]_vars

InitContainer ==
    /\ ct_header \in ContainerHeaders
    /\ ct_blocks = [id \in BlockIds |-> <<>>]
    /\ ct_aquired = {}
    /\ ct_written = [id \in BlockIds |-> NoBytes]
    /\ ct_last = NoLast
    /\ PsIdle
    /\ HdIdle
    /\ MgIdle
    /\ CdIdle
    /\ ArIdle
    /\ StIdle
    /\ SvIdle

SpecContainer == InitContainer /\ [][CtNext]_vars

InitHeader ==
    /\ hd_slot = Zeros(HeaderMaxSize)
    /\ hd_wrote = NoWrote
    /\ hd_last = NoHdLast
    /\ PsIdle
    /\ CtIdle
    /\ MgIdle
    /\ CdIdle
    /\ ArIdle
    /\ StIdle
    /\ SvIdle

SpecHeader == InitHeader /\ [][HdNext]_vars

\* The life of a header slot: containers are created on it and opened from
\* it, and a container does block I/O, in any order.
InitLifecycle ==
    /\ hd_slot = Zeros(HeaderMaxSize)
    /\ hd_wrote = NoWrote
    /\ hd_last = NoHdLast
    /\ ct_header = [cipher |-> "None", key |-> <<>>, iv |-> <<>>]
    /\ ct_blocks = [id \in BlockIds |-> <<>>]
    /\ ct_aquired = {}
    /\ ct_written = [id \in BlockIds |-> NoBytes]
    /\ ct_last = NoLast
    /\ PsIdle
    /\ MgIdle
    /\ CdIdle
    /\ ArIdle
    /\ StIdle
    /\ SvIdle

SpecLifecycle == InitLifecycle /\ [][LcNext]_vars

InitMigrate ==
    /\ mg_migrator = NoMigration
    /\ mg_slot \in StoredHeaders
    /\ mg_last = NoMgLast
    /\ PsIdle
    /\ CtIdle
    /\ HdIdle
    /\ CdIdle
    /\ ArIdle
    /\ StIdle
    /\ SvIdle

SpecMigrate == InitMigrate /\ [][MgNext]_vars

InitCodec ==
    /\ cd_buf \in ReaderInputs
    /\ cd_last = NoCdLast
    /\ PsIdle
    /\ CtIdle
    /\ HdIdle
    /\ MgIdle
    /\ ArIdle
    /\ StIdle
    /\ SvIdle

SpecCodec == InitCodec /\ [][CdNext]_vars

InitArchive ==
    /\ ar_state = ArFresh
    /\ ar_last = NoArLast
    /\ PsIdle
    /\ CtIdle
    /\ HdIdle
    /\ MgIdle
    /\ CdIdle
    /\ StIdle
    /\ SvIdle

SpecArchive == InitArchive /\ [][ArNext]_vars

SpecBuilder == InitArchive /\ [][BdNext]_vars

SpecWrites == InitArchive /\ [][WrNext]_vars

\* the loop of write_all runs on: the caller does not return before it ends
SpecWriteAll == InitArchive /\ [][WaNext]_vars /\ WF_vars(ArWriteAllLoop)

InitStream ==
    /\ st_state = StEmpty
    /\ st_last = NoStLast
    /\ PsIdle
    /\ CtIdle
    /\ HdIdle
    /\ MgIdle
    /\ CdIdle
    /\ ArIdle
    /\ SvIdle

SpecStream == InitStream /\ [][StNext]_vars

InitService ==
    /\ sv_state = [n \in ToolContainers |-> NoToolContainer]
    /\ sv_last = NoSvLast
    /\ PsIdle
    /\ CtIdle
    /\ HdIdle
    /\ MgIdle
    /\ CdIdle
    /\ ArIdle
    /\ StIdle

SpecService == InitService /\ [][SvNext]_vars

\* number of callback invocations so far
RECURSIVE Invocations(_)
Invocations(trace) ==
    IF trace = <<>> THEN 0
    ELSE Invocations(Tail(trace)) + (IF Head(trace).invoked THEN 1 ELSE 0)

(***************************************************************************)
(* Claims about the password store                                         *)
(***************************************************************************)

SuccessfulInvocations(trace) ==
    Cardinality({ i \in 1..Len(trace) : trace[i].invoked /\ trace[i].ok })

\* C5 (as stated): over any sequence of value() calls on one store the
\* password callback is invoked at most once.
C5_CallbackAtMostOnce == Invocations(ps_trace) <= 1

\* C5 (amended): the callback is invoked successfully at most once.  A call
\* that finds a cached value returns it without invoking the callback; a call
\* that finds none and succeeds has invoked the callback once, and every
\* later call returns that same value without invoking the callback.  (A
\* failed invocation caches nothing, so a later call invokes the callback
\* again.)
C5_CallbackCachedAfterSuccess ==
    /\ SuccessfulInvocations(ps_trace) <= 1
    /\ \A i \in 1..Len(ps_trace) :
         LET e == ps_trace[i] IN
           /\ e.before.value.some =>
                ~e.invoked /\ e.ok /\ e.val = e.before.value.v
           /\ (~e.before.value.some /\ e.ok) =>
                /\ e.invoked
                /\ e.val = e.cb.val
                /\ \A j \in (i + 1)..Len(ps_trace) :
                     /\ ~ps_trace[j].invoked
                     /\ ps_trace[j].ok
                     /\ ps_trace[j].val = e.val

\* C5 witness: a call invoked the callback and succeeded, and a later call
\* returned the cached value.
C5_Witness ==
    \E i, j \in 1..Len(ps_trace) :
        /\ i < j
        /\ ps_trace[i].invoked /\ ps_trace[i].ok
        /\ ~ps_trace[j].invoked /\ ps_trace[j].ok
        /\ ps_trace[j].val = ps_trace[i].cb.val

\* C6: value() on a store with no cached value fails with NoPassword(None)
\* when no callback is assigned, and with NoPassword(Some(msg)), msg being the
\* callback's own message, when the callback returns an error.
C6_NoPasswordErrors ==
    \A i \in 1..Len(ps_trace) :
        LET e == ps_trace[i] IN
          ~e.before.value.some =>
            /\ ~e.before.callback =>
                 /\ ~e.ok
                 /\ ~e.invoked
                 /\ e.err.kind = "NoPassword"
                 /\ ~e.err.cause.some
            /\ (e.before.callback /\ ~e.cb.ok) =>
                 /\ ~e.ok
                 /\ e.err.kind = "NoPassword"
                 /\ e.err.cause.some
                 /\ e.err.cause.v = e.cb.msg

\* C6 witness: the callback answered "aborted" to a call that found no
\* cached value, and the call failed with that message.
C6_Witness ==
    \E i \in 1..Len(ps_trace) :
        /\ ps_trace[i].before.callback
        /\ ~ps_trace[i].before.value.some
        /\ ps_trace[i].cb.msg = "aborted"
        /\ ps_trace[i].err = NoPasswordError(SomeString("aborted"))

(***************************************************************************)
(* Claims about the container                                              *)
(***************************************************************************)

\* The last operation was a read of a block that holds the payload b of a
\* successful write, |b| <= limit, and it copied Min(|buf|, limit) bytes: the
\* first |b| are b, the rest is zero, and the buffer behind them is untouched.
ReadReturnsPayload(limit) ==
    (/\ ct_last.op = "read"
     /\ ~IsNull(ct_last.id)
     /\ ct_written[ct_last.id].some
     /\ Len(ct_written[ct_last.id].v) <= limit) =>
        LET b == ct_written[ct_last.id].v
            n == Min(Len(ct_last.arg), limit)
        IN  /\ ct_last.ok
            /\ ct_last.n = n
            /\ Len(ct_last.buf) = Len(ct_last.arg)
            /\ \A i \in 1..Len(ct_last.buf) :
                 ct_last.buf[i] = IF i <= Min(n, Len(b)) THEN b[i]
                                  ELSE IF i <= n THEN 0
                                  ELSE ct_last.arg[i]

C2_NullIdRejected ==
    [][(ct_last'.op \in {"read", "write"} /\ IsNull(ct_last'.id)) =>
          /\ ~ct_last'.ok
          /\ ct_last'.err = "NullId"
          /\ ct_last'.calls = 0
          /\ ct_blocks' = ct_blocks
          /\ ct_aquired' = ct_aquired]_vars

\* C2 witness: a write with the null id failed with NullId while a block
\* holds a payload.
C2_Witness ==
    /\ ct_last.op = "write" /\ IsNull(ct_last.id)
    /\ ct_last.err = "NullId"
    /\ \E id \in BlockIds : ct_written[id].some /\ Len(ct_written[id].v) > 0

(***************************************************************************)
(* Claims about the header                                                 *)
(***************************************************************************)

\* C3 (as stated): an open that reads the slot a create has written, with
\* the password the create was given, succeeds and yields a header equal to
\* the one created (cipher, kdf, key, iv) and the settings written.
C3_ReadAfterWrite ==
    (/\ hd_last.op = "open"
     /\ hd_wrote.some /\ hd_wrote.intact
     /\ hd_last.password = hd_wrote.password) =>
        /\ hd_last.ok
        /\ hd_last.header = hd_wrote.header
        /\ hd_last.settings = hd_wrote.settings

\* C4: an open fails with WrongPassword exactly when the cipher has opened
\* the secret and the two magics read from it differ; when the cipher fails,
\* the open fails with the error of the cipher.
C4_WrongPasswordIffMagicsDiffer ==
    hd_last.op = "open" =>
        /\ (hd_last.err = "WrongPassword") <=>
              (/\ hd_last.secret.decrypted
               /\ hd_last.secret.magics
               /\ hd_last.secret.magic1 # hd_last.secret.magic2)
        /\ hd_last.secret.cipherErr # "" =>
              /\ ~hd_last.ok
              /\ ~hd_last.secret.decrypted
              /\ hd_last.err = hd_last.secret.cipherErr
              /\ hd_last.err # "WrongPassword"

\* C4 witness: a header sealed under Aes128Ctr was opened with another
\* password than it was created with, and the open failed with WrongPassword.
C4_Witness ==
    /\ hd_last.op = "open"
    /\ hd_wrote.some /\ hd_wrote.intact
    /\ hd_wrote.header.cipher = "Aes128Ctr"
    /\ hd_last.password.some
    /\ hd_last.password # hd_wrote.password
    /\ hd_last.secret.decrypted
    /\ hd_last.err = "WrongPassword"

\* C7 (as stated): an open of a slot whose revision is 0 or 1 is not
\* rejected for its revision, and an open of a slot whose revision is
\* greater than 1 fails with the invalid-revision error.
C7_RevisionZeroAndOneAccepted ==
    (hd_last.op = "open" /\ hd_last.revision >= 0) =>
        /\ hd_last.revision <= 1 => hd_last.err # "invalid revision"
        /\ hd_last.revision > 1 =>
             ~hd_last.ok /\ hd_last.err = "invalid revision"

(***************************************************************************)
(* Claims about the migration                                              *)
(***************************************************************************)

\* The last operation read a revision 0 header that holds the userdata u
\* with a migration registered that accepts u: the read succeeded, the
\* header in memory has the given revision and its top-id is what the
\* migration made of u.
MigratedRead(revision) ==
    \A u \in Userdatas :
        (/\ mg_last.op = "read"
         /\ mg_slot = Rev0Header(u)
         /\ mg_migrator.some
         /\ MigrationMigrateRev0(mg_migrator.v, u).ok) =>
            /\ mg_last.read.ok
            /\ mg_last.read.header.revision = revision
            /\ mg_last.read.header.top_id =
                 SomeBytes(MigrationMigrateRev0(mg_migrator.v, u).bytes)

C10_MigrateRev0 ==
    (mg_last.op = "migrate_rev0" /\ mg_migrator.some) =>
        /\ mg_last.migration.given = SomeBytes(mg_last.userdata)
        /\ MigrationMigrateRev0(mg_migrator.v, mg_last.userdata).ok =>
             /\ mg_last.migration.ok
             /\ mg_last.migration.some
             /\ mg_last.migration.sid =
                  MigrationMigrateRev0(mg_migrator.v, mg_last.userdata).sid
             /\ mg_last.migration.bytes =
                  MigrationMigrateRev0(mg_migrator.v, mg_last.userdata).bytes
        /\ ~MigrationMigrateRev0(mg_migrator.v, mg_last.userdata).ok =>
             /\ ~mg_last.migration.ok
             /\ mg_last.migration.err = MigrationErrorRev0(
                  MigrationMigrateRev0(mg_migrator.v, mg_last.userdata).msg)

\* C10 witness: OkSample was handed 01 02 03 and migrate_rev0 returned the
\* service id 666 with these bytes.
C10_Witness ==
    /\ mg_last.op = "migrate_rev0"
    /\ mg_migrator = SomeMigration("OkSample")
    /\ mg_last.userdata = <<1, 2, 3>>
    /\ mg_last.migration.ok
    /\ mg_last.migration.sid = 666
    /\ mg_last.migration.bytes = <<1, 2, 3>>

(***************************************************************************)
(* Claims about the invariants of the header                               *)
(***************************************************************************)

\* The invariants of a header: key and iv have the lengths of the cipher,
\* and with the cipher None the header has no kdf and key and iv are empty.
HeaderInvariant(h) ==
    /\ Len(h.key) = CipherKeyLen(h.cipher)
    /\ Len(h.iv) = CipherIvLen(h.cipher)
    /\ h.cipher = "None" => (h.kdf = NoKdf /\ h.key = <<>> /\ h.iv = <<>>)

\* C11 (as stated): the header that a successful create has made and the
\* header that a successful open has read satisfy the invariants of a
\* header.
C11_HeaderInvariants ==
    /\ hd_wrote.some => HeaderInvariant(hd_wrote.header)
    /\ (hd_last.op = "open" /\ hd_last.ok) => HeaderInvariant(hd_last.header)

\* C12: with the cipher None neither create (the header write) nor open
\* (the header read) calls PasswordStore::value(), so the callback is never
\* invoked; create succeeds, and open of the slot a create has written
\* succeeds, whether a callback is assigned or not.
C12_NoPasswordForCipherNone ==
    /\ (hd_last.op = "create" /\ hd_last.cipher = "None") =>
          /\ hd_last.ok
          /\ ~hd_last.asked
          /\ ~hd_last.invoked
    /\ (hd_last.op = "open" /\ hd_last.cipher = "None") =>
          /\ ~hd_last.asked
          /\ ~hd_last.invoked
          /\ (hd_wrote.some /\ hd_wrote.intact) => hd_last.ok

\* C12 witness: a slot written with the cipher None was opened with a
\* callback assigned; the open succeeded and the callback was not invoked.
C12_Witness ==
    /\ hd_last.op = "open"
    /\ hd_wrote.some /\ hd_wrote.intact
    /\ hd_wrote.header.cipher = "None"
    /\ hd_last.cipher = "None"
    /\ hd_last.callback
    /\ hd_last.ok
    /\ ~hd_last.invoked

C14_HeaderTooLarge ==
    hd_last.op = "create" =>
        /\ hd_last.size > HeaderMaxSize =>
             /\ ~hd_last.ok
             /\ hd_last.err = HeaderTooLarge
             /\ hd_last.kept
        /\ hd_last.err = HeaderTooLarge => hd_last.size > HeaderMaxSize
        /\ ~hd_last.ok => hd_last.kept

\* C14 witness: a slot that holds a header was not changed by a create that
\* failed with HeaderTooLarge.
C14_Witness ==
    /\ hd_last.op = "create"
    /\ ~hd_last.ok
    /\ hd_last.err = HeaderTooLarge
    /\ hd_last.size > HeaderMaxSize
    /\ hd_wrote.some
    /\ SubSeq(hd_slot, 1, Len(MAGIC)) = MAGIC

(***************************************************************************)
(* Claims about the header slot                                            *)
(***************************************************************************)

MarkType(b) ==
    CASE b = VAR16 -> "U16" [] b = VAR32 -> "U32" [] b = VAR64 -> "U64"
      [] b = VAR128 -> "U128" [] OTHER -> ""

TypeWidth(type) ==
    CASE type = "U16" -> 16 [] type = "U32" -> 32 [] type = "U64" -> 64
      [] type = "U128" -> 128 [] OTHER -> 0

\* C16 (as stated): a read into an integer type that is narrower than the
\* type of the leading width mark fails with InvalidInteger, expected the
\* type read into, got the type of the mark.
C16_NarrowerTypeRejected ==
    (/\ cd_last.op = "read_var"
     /\ TypeWidth(MarkType(cd_buf[1])) > TypeWidth(cd_last.type)) =>
        /\ ~cd_last.ok
        /\ cd_last.err = "InvalidInteger"
        /\ cd_last.expected = cd_last.type
        /\ cd_last.got = MarkType(cd_buf[1])

\* C17 (as stated): a leading byte of at most 250 is the value; a width
\* mark that the type read into has room for makes the reader take the
\* next 2, 4, 8 or 16 bytes as the value; the leading byte 255 is not
\* accepted.
C17_LeadingByte ==
    cd_last.op = "read_var" =>
        /\ cd_buf[1] <= 250 =>
             /\ cd_last.ok
             /\ cd_last.v = <<cd_buf[1]>>
             /\ cd_last.rest = SubSeq(cd_buf, 2, Len(cd_buf))
        /\ (/\ MarkType(cd_buf[1]) # ""
            /\ TypeWidth(MarkType(cd_buf[1])) <= TypeWidth(cd_last.type)
            /\ Len(cd_buf) > TypeWidth(MarkType(cd_buf[1])) \div 8) =>
             /\ cd_last.ok
             /\ cd_last.v =
                  SubSeq(cd_buf, 2, 1 + TypeWidth(MarkType(cd_buf[1])) \div 8)
             /\ cd_last.rest =
                  SubSeq(cd_buf, 2 + TypeWidth(MarkType(cd_buf[1])) \div 8,
                         Len(cd_buf))
        /\ cd_buf[1] > VAR128 => ~cd_last.ok

\* the head block ids of the entries, in the order the entries were built
EntryHeads == [i \in 1..Len(ar_state.entries) |-> ar_state.entries[i].first]

\* the last operation was a successful build and no EntryMut::write was
\* called on a file: the archive is the result of successful builds alone
OnlyBuilds ==
    /\ ar_last.op \in {"file", "directory", "symlink"}
    /\ ar_last.ok
    /\ \A i \in 1..Len(ar_state.entries) :
        ar_state.entries[i].kind # "symlink" => ar_state.entries[i].blocks = <<>>

\* nfiles is n, ordinal i < n is the head of the i-th entry, ordinal n is none
OrdinalsAreHeads ==
    /\ ar_state.nfiles = Len(ar_state.entries)
    /\ \A i \in 1..Len(ar_state.entries) :
        TreeLookup(ar_state, i - 1) = SomeId(EntryHeads[i])
    /\ TreeLookup(ar_state, Len(ar_state.entries)) = NoId

RECURSIVE LeavesOf(_)
\* the ids the entries acquired through the tree: each head block followed
\* by the entry's content blocks
LeavesOf(entries) ==
    IF entries = <<>> THEN <<>>
    ELSE <<Head(entries).first>> \o Head(entries).blocks \o LeavesOf(Tail(entries))

IsHead(id) == \E i \in 1..Len(ar_state.entries) : ar_state.entries[i].first = id

C20_SizeWithinContent ==
    \A i \in 1..Len(ar_state.entries) :
        ar_state.entries[i].psize <= ar_state.entries[i].pcontent

\* the flush of the entry failed after the content block was written: the
\* container holds more content than the size in the head block says
C20_Witness ==
    /\ ar_last.op = "write"
    /\ ar_last.fail = "flush"
    /\ ar_state.open # 0
    /\ ar_state.entries[ar_state.open].psize > 0
    /\ ar_state.entries[ar_state.open].psize < ar_state.entries[ar_state.open].pcontent

\* the written blocks without successor
StTails == {id \in DOMAIN st_state.blocks : ~st_state.blocks[id].next.some}

\* C21: after any sequence of inserts and removes on a block stream, walking
\* next from the head and walking prev from the tail visit the same blocks,
\* all the blocks of the stream, in reverse order; the head has no prev and
\* the tail no next.
C21_WalksAreReverse ==
    ~st_state.crashed =>
        IF DOMAIN st_state.blocks = {}
        THEN ~st_state.head.some
        ELSE /\ st_state.head.some
             /\ st_state.head.v \in DOMAIN st_state.blocks
             /\ ~st_state.blocks[st_state.head.v].prev.some
             /\ Len(Chain(st_state)) = Cardinality(DOMAIN st_state.blocks)
             /\ StTails = {Chain(st_state)[Len(Chain(st_state))]}
             /\ \A t \in StTails :
                    WalkPrev(st_state.blocks, StId(t), MaxStreamIds + 1)
                        = Reverse(Chain(st_state))

\* a chain of three blocks that is not in the order of the ids, reached by
\* a remove
C21_Witness ==
    /\ ~st_state.crashed
    /\ st_last.op = "remove"
    /\ Len(st_last.before) = 3
    /\ Len(Chain(st_state)) = 2
    /\ Chain(st_state)[1] > Chain(st_state)[2]

\* the chain walked backwards from the last block of the forward walk
ChainBack(s) ==
    IF Chain(s) = <<>> THEN <<>>
    ELSE WalkPrev(s.blocks, StId(Chain(s)[Len(Chain(s))]), MaxStreamIds + 1)

\* every next link of a written block leads to a written block of the chain
NoDanglingNext ==
    \A id \in DOMAIN st_state.blocks :
        st_state.blocks[id].next.some =>
            /\ st_state.blocks[id].next.v \in DOMAIN st_state.blocks
            /\ \E i \in 1..Len(Chain(st_state)) :
                Chain(st_state)[i] = st_state.blocks[id].next.v

InsertedAt(before, at, x) ==
    SubSeq(before, 1, at) \o <<x>> \o SubSeq(before, at + 1, Len(before))

\* the position of the cursor in the chain, 0 if it was not advanced
PositionOf(chain, cur) ==
    IF cur.some THEN CHOOSE i \in 1..Len(chain) : chain[i] = cur.v ELSE 0

\* C26: Stream::insert links the new block directly behind the block of
\* the cursor, and in front of the first block (or as the only block) with
\* a cursor that was not advanced; the blocks that were there keep their
\* order and the cursor ends on the new block.
C26_InsertAtCursor ==
    (st_last.op = "insert") =>
        /\ Chain(st_state)
            = InsertedAt(st_last.before, PositionOf(st_last.before, st_last.at),
                         st_last.id.v)
        /\ st_state.cur = st_last.id
        /\ StreamNext(st_state)
            = (IF PositionOf(st_last.before, st_last.at) < Len(st_last.before)
               THEN StId(st_last.before[PositionOf(st_last.before, st_last.at) + 1])
               ELSE StNull)
        /\ StreamPrev(st_state) = st_last.at

\* a block was inserted behind the first of three blocks (test three_1)
C26_Witness ==
    /\ st_last.op = "insert"
    /\ Len(st_last.before) = 3
    /\ PositionOf(st_last.before, st_last.at) = 1
    /\ Len(Chain(st_state)) = 4

\* what a step that runs `archive create` on the container name does
CreateStep(name) ==
    /\ sv_last'.op = "archive create"
    /\ sv_last'.name = name
    /\ sv_last' # sv_last

Persistent(a) ==
    [next |-> a.next, tree |-> a.tree, nfiles |-> a.nfiles,
     entries |-> a.entries]

\* C24: creating an entry builder (file, directory or symlink) and dropping
\* it without build() acquires no block, writes no block and leaves nfiles
\* and the tree as they are.
C24_DroppedBuilderChangesNothing ==
    [][ar_last'.op \in {"new", "drop"}
        => Persistent(ar_state') = Persistent(ar_state)]_vars

\* a symlink builder was dropped on an archive that holds an entry with a
\* content block
C24_Witness ==
    /\ ar_last.op = "drop"
    /\ ar_state.builder = NoBuilder
    /\ Len(ar_state.entries) >= 1
    /\ ar_state.entries[1].blocks # <<>>
    /\ ar_state.next <= MaxArIds

\* the last operation was a read of a block that is acquired and has not
\* been written since
ReadOfUnwritten ==
    /\ ct_last.op = "read"
    /\ ct_last.id \in ct_aquired
    /\ ~ct_written[ct_last.id].some

\* C25 as stated: for every cipher Container::read of a block that was
\* acquired and has not been written yet returns an all-zero buffer.  It
\* fails for the ciphers that encrypt: the backend's zero block is
\* decrypted like any other block.
C25_UnwrittenBlockReadsZero ==
    ReadOfUnwritten =>
        /\ ct_last.ok
        /\ ct_last.n = Min(BlockSize, Len(ct_last.arg))
        /\ SubSeq(ct_last.buf, 1, ct_last.n) = Zeros(ct_last.n)

\* C27: Container::read and Container::write hand the header's key and IV
\* to the cipher whatever the block id is, so two blocks that were written
\* with the same plaintext hold the same ciphertext in the backend.
C27_CiphertextIndependentOfId ==
    \A id1 \in ct_aquired, id2 \in ct_aquired :
        (/\ ct_written[id1].some
         /\ ct_written[id1] = ct_written[id2])
            => ct_blocks[id1] = ct_blocks[id2]

\* two blocks were written with the same two bytes under a cipher that
\* encrypts
C27_Witness ==
    /\ ct_header.cipher = "Aes128Ctr"
    /\ ct_last.op = "write"
    /\ ct_last.ok
    /\ \E id1 \in ct_aquired, id2 \in ct_aquired :
        /\ id1 # id2
        /\ ct_written[id1].some
        /\ Len(ct_written[id1].v) = 2
        /\ ct_written[id1] = ct_written[id2]
        /\ ct_blocks[id1] # PadPlaintext(ct_written[id1].v, BlockSize)

\* C28: EntryMut::write(buf) with entry size s and block size B stores
\* n = min(|buf|, B - (s mod B)) bytes at offset s mod B of the last content
\* block, returns n and increases the size by n; it acquires at most one
\* block, the one it stores the bytes in, and the bytes lie in one block.
C28_WriteStoresInOneBlock ==
    [][(ar_last'.op = "write" /\ ar_last'.ok /\ ar_state.open # 0) =>
        \E e \in { ar_state.entries[ar_state.open] } :
        \E e2 \in { ar_state'.entries[ar_state.open] } :
        \E n \in { Min(ar_last'.len, ArBlockSize - (e.size % ArBlockSize)) } :
            /\ ar_last'.nbytes = n
            /\ e2.size = e.size + n
            /\ e2.psize = e2.size
            /\ e2.pcontent = e2.size
            /\ ar_last'.pos = e.size % ArBlockSize
            /\ ar_last'.pos + n <= ArBlockSize
            /\ ar_last'.id = SomeId(e2.last)
            /\ e2.blocks = (IF e.size % ArBlockSize = 0
                            THEN Append(e.blocks, e2.last) ELSE e.blocks)
            /\ e2.blocks # <<>>
            /\ e2.last = e2.blocks[Len(e2.blocks)]
            /\ Len(ar_state'.tree) <= Len(ar_state.tree) + 1]_vars

\* a write of three bytes at offset 1 stored one byte, the rest of the block
C28_Witness ==
    /\ ar_last.op = "write"
    /\ ar_last.ok
    /\ ar_last.len = 3
    /\ ar_last.pos = 1
    /\ ar_last.nbytes = ArBlockSize - 1
    /\ ar_state.open # 0
    /\ ar_state.entries[ar_state.open].size = ArBlockSize

\* C29: EntryMut::write_all(buf) terminates for every buf: every write of
\* the loop on a non-empty rest takes at least one byte of it, the loop is
\* left with an error only if a container operation failed (the container
\* has no block left for the tree), and otherwise after the whole buffer
\* was written.
C29_WriteAllTerminates ==
    /\ (ar_last.op = "write_all")
        ~> (ar_last.op \in {"write_all_ok", "write_all_err"})
    /\ [][(ar_last.op = "write_all" /\ ar_last'.op = "write_all")
            => /\ ar_last.rest > 0
               /\ ar_last'.rest < ar_last.rest
               /\ ar_last'.nbytes >= 1]_vars
    /\ [](ar_last.op = "write_all_ok" =>
            /\ ar_last.rest = 0
            /\ ar_state.entries[ar_state.open].size = ar_last.start + ar_last.len
            /\ ar_state.entries[ar_state.open].psize = ar_last.start + ar_last.len)
    /\ [](ar_last.op = "write_all_err" =>
            /\ ar_last.rest > 0
            /\ ~TreeAquire(ar_state).ok)

\* a buffer of five bytes was written by three writes into three blocks
C29_Witness ==
    /\ ar_last.op = "write_all_ok"
    /\ ar_last.len = 5
    /\ ar_last.start = 0
    /\ ar_last.nbytes = 1
    /\ Len(ar_state.entries[ar_state.open].blocks) = 3

\* ceil(size / block size)
BlocksFor(size) == (size + ArBlockSize - 1) \div ArBlockSize

\* C30 as stated: after any sequence of successful EntryMut::write calls on
\* an entry, calls with an empty buffer included, the number of content
\* blocks acquired for the entry is ceil(size / block size).  It fails
\* after a write of an empty buffer at a block boundary, which acquires a
\* block and stores no byte in it.
C30_BlocksMatchSize ==
    \A i \in 1..Len(ar_state.entries) :
        Len(ar_state.entries[i].blocks) = BlocksFor(ar_state.entries[i].size)

====
